---- MODULE Spec2Model ----
(***************************************************************************)
(* Model of packages/teams-agent/src/util.ts:                              *)
(*   runWithLimitedConcurrency  (the concurrency limiter)                  *)
(*   sendRequestWithRetry       (the retry loop)                           *)
(* and of the rest of util.ts (sendRequestWithTimeout, fileTreeAdd,        *)
(* buildFileTree, downloadSampleFiles, getSampleFileInfo), and of          *)
(* AzureAccountManager in vscode-extension/src/commonlib/azureLogin.ts.    *)
(*                                                                         *)
(* JavaScript runs one job to completion at a time.  A step of the model   *)
(* is one such job: the synchronous run of the limiter's loop up to its    *)
(* next await, the settling of one callback promise together with the      *)
(* .then/.catch handlers chained on it, or the resumption of an await.     *)
(***************************************************************************)
EXTENDS Integers, Sequences, FiniteSets, TLC

\* ------------------------------------------------------------- bounds
MaxItems == 5
MaxLimit == 3
MaxTry == 3

VARIABLES
  \* runWithLimitedConcurrency
  nItems,            \* items.length; an item is named by its position 1..nItems
  concurrencyLimit,  \* the concurrencyLimit argument
  willFail,          \* the items whose callback rejects (the fault pattern)
  next,              \* position of the for-of iterator: the next item to take
  cbState,           \* per item: "idle", "pending", "fulfilled", "rejected"
  invoked,           \* per item: how many times callback(item) was called
  queue,             \* the local array `queue`: the promises p, by item
  pc,                \* "idle", "loop" (running the for loop), "race" and "all"
                     \*   (suspended in an await), "resolved", "rejected"
  waitState,         \* the awaited Promise.race / Promise.all:
                     \*   "none", "pending", "fulfilled", "rejected"
  waitOn,            \* the promises the awaited combinator was built from
  waitErr,           \* the reason the awaited combinator rejected with
  result,            \* the reason runWithLimitedConcurrency rejected with
  failOrder,         \* history: the items in the order their callbacks rejected
  \* sendRequestWithRetry
  tryLimits,         \* the tryLimits argument
  loopI,             \* the loop counter i
  status,            \* the local `status`: NoStatus (undefined) or a number
  error,             \* the local `error`: Undefined or an error object
  rpc,               \* "idle", "loop", "returned", "thrown"
  ret,               \* the response returned or the error thrown
  hist,              \* history: the outcome of every call of requestFn so far
  \* sendRequestWithTimeout
  tpc,               \* "idle", "running", "returned", "thrown"
  tret,              \* the response returned or the error thrown
  timer,             \* the setTimeout timer: "none", "armed", "fired", "cleared"
  cancelledTokens,   \* the cancel tokens whose source.cancel() has run
  tokens,            \* history: per call of requestFn, the token passed to it
  timersStarted,     \* history: how many times setTimeout was called
  firedAt,           \* history: "never", or where the call was when the timer
                     \*   fired: "inflight" (awaiting requestFn) or "settled"
  \* fileTreeAdd / buildFileTree
  root,              \* the tree node `root`
  inserted,          \* history: the relative paths passed to fileTreeAdd
  samplePaths,       \* the samplePaths argument of buildFileTree
  failAt,            \* per item: where its callback fails: "none", "fetch",
                     \*   "ensure", "write"
  stage,             \* per item: "idle", "fetching", "ensuring", "writing",
                     \*   "done", "failed"
  writeLog,          \* downloadSampleFiles, history: the calls of
                     \*   fs.ensureFile and fs.writeFile that succeeded, in
                     \*   order
  disk,              \* buildFileTree: the files under dstPath, each with its
                     \*   path and content
  \* getSampleFileInfo
  listing,           \* fileInfo: the data of the response
  dir,               \* urlInfo.dir
  lpc,               \* "idle", "fetching", "done", "thrown"
  listed,            \* the object returned or the error thrown
  \* two calls of buildFileTree side by side
  runs,              \* per call: its arguments, its locals, where it stands
  arrays,            \* the arrays made by `const queue = []`, by reference
  trees,             \* the objects made by `const root = {...}`, by reference
  \* AzureAccountManager
  acct,              \* the static fields subscriptionId, subscriptionName,
                     \*   tenantId and currentStatus
  prov,              \* the provider: whether it is signed in
  events,            \* provider events fired and not yet handled
  tasks,             \* the calls of the manager's methods: where each stands
  ncalls,            \* how many calls of the manager's methods were made,
                     \*   counted up to MaxSideBySide
  tick,              \* the turn of the event loop: the calls whose awaited
                     \*   promise settled in it, and whether the jobs queued
                     \*   after them are running
  \* AzureAccountManager, construction
  provider,          \* the static field provider: "undefined" until resolved
  adds,              \* the calls of addStatusChangeEvent: how many stand at each await
  registered,        \* how many times the handlers were registered
  logins,            \* how many calls of isUserLogin found the provider undefined
  fired,             \* how many sign-in / sign-out events the provider fired
  handlerRuns,       \* the runs of the handlers, started by the events
  cachedStatus,      \* the static field currentStatus
  updates,           \* how many status updates the events have caused
  notified           \* how many status notifications the events have caused

limVars == <<nItems, concurrencyLimit, willFail, next, cbState, invoked, queue,
             pc, waitState, waitOn, waitErr, result, failOrder>>

retVars == <<tryLimits, loopI, status, error, rpc, ret, hist>>

toVars == <<tpc, tret, timer, cancelledTokens, tokens, timersStarted, firedAt>>

treeVars == <<root, inserted>>

bldVars == <<samplePaths, failAt, stage, writeLog, disk>>

lsVars == <<listing, dir, lpc, listed>>

pairVars == <<runs, arrays, trees>>

acctVars == <<acct, prov, events, tasks, ncalls, tick>>

ctorVars == <<provider, adds, registered, logins, fired, handlerRuns,
              cachedStatus, updates, notified>>

vars == <<limVars, retVars, toVars, treeVars, bldVars, lsVars, pairVars, acctVars,
          ctorVars>>

\* The number of calls of isUserLogin that find the provider undefined while
\* AzureAccountManager is set up.
MaxLogins == 2

\* The number of sign-in and sign-out events the provider fires.
MaxSignals == 2

\* The number of calls of the manager's methods, from the first on, that are
\* followed side by side; the calls after them are followed one at a time.
MaxSideBySide == 2

\* The number of calls of isUserLogin that find the provider undefined while
\* the manager is in use.
MaxRestarts == 1

\* The number of sign-in and sign-out events that wait for their handlers
\* while the manager is in use.
MaxWaiting == 1

\* ------------------------------------------------------------ values
Items == 1..nItems

\* The error object raised by the callback of item i.  Every callback raises
\* its own object, so the object is identified by the item.
ErrorOf(i) == [raisedBy |-> i]
NoError == [raisedBy |-> 0]

Limits == (0 - 1)..MaxLimit

\* `undefined`: the value of a local not assigned yet, of e?.response?.status
\* when there is no response, and of a rejection that carries no reason.
\* NoStatus stands for `undefined` where a status number is expected.
NoStatus == 0 - 1
Undefined == [kind |-> "undefined"]

\* ------------------------------------------------- array primitives
\* Array.prototype.indexOf: the 0-based index of the first occurrence, or -1.
IndexOf(q, x) ==
  IF \E k \in 1..Len(q) : q[k] = x
    THEN (CHOOSE k \in 1..Len(q) : q[k] = x /\ \A j \in 1..(k - 1) : q[j] # x) - 1
    ELSE 0 - 1

\* Array.prototype.splice(start, 1): a negative start counts from the end.
Splice1(q, start) ==
  LET s == IF start < 0 THEN (IF Len(q) + start < 0 THEN 0 ELSE Len(q) + start)
                        ELSE (IF start > Len(q) THEN Len(q) ELSE start)
  IN  [k \in 1..(IF s < Len(q) THEN Len(q) - 1 ELSE Len(q)) |->
         IF k <= s THEN q[k] ELSE q[k + 1]]

\* Mutant: the handler takes out the oldest entry of the queue.
RemoveFromQueueHead(q, i) == Tail(q)

\* queue.splice(queue.indexOf(p), 1)
RemoveFromQueue(q, i) == Splice1(q, IndexOf(q, i))

\* The promises of q that are already rejected, in array order.
RejectedIn(q) == SelectSeq(q, LAMBDA j : cbState[j] = "rejected")

\* Mutant: a race that does not see the promises rejected before it was made.
RaceStateBlind(q) == "pending"

\* Promise.race(q) right after its creation: the reactions of the promises
\* already settled are queued in array order, so the first rejected one wins.
\* A fulfilled p has left the queue before it fulfilled.
RaceState(q) == IF RejectedIn(q) # <<>> THEN "rejected" ELSE "pending"

\* Promise.all(q) right after its creation.
AllState(q) ==
  IF q = <<>> THEN "fulfilled"
  ELSE IF RejectedIn(q) # <<>> THEN "rejected" ELSE "pending"

\* Mutant: the .catch handler wraps the error.
RethrowWrapped(err) == [raisedBy |-> 0, cause |-> err]

\* The value the promise p rejects with: .catch((err) => { throw err })
Rethrow(err) == err

FirstRejectedErr(q) ==
  IF RejectedIn(q) # <<>> THEN Rethrow(ErrorOf(Head(RejectedIn(q)))) ELSE NoError

\* ------------------------------------------------ idle components
\* sendRequestWithRetry has not been called.
RetIdle ==
  /\ tryLimits = 0
  /\ loopI = 0
  /\ status = NoStatus
  /\ error = Undefined
  /\ rpc = "idle"
  /\ ret = Undefined
  /\ hist = <<>>

\* sendRequestWithTimeout has not been called.
ToIdle ==
  /\ tpc = "idle"
  /\ tret = Undefined
  /\ timer = "none"
  /\ cancelledTokens = {}
  /\ tokens = <<>>
  /\ timersStarted = 0
  /\ firedAt = "never"

\* No tree is being built.
TreeIdle ==
  /\ root = Undefined
  /\ inserted = <<>>

\* buildFileTree has not been called.
BldIdle ==
  /\ samplePaths = <<>>
  /\ failAt = <<>>
  /\ stage = <<>>
  /\ writeLog = <<>>
  /\ disk = {}

\* getSampleFileInfo has not been called.
LsIdle ==
  /\ listing = Undefined
  /\ dir = <<>>
  /\ lpc = "idle"
  /\ listed = Undefined

\* runWithLimitedConcurrency has not been called.
LimIdle ==
  /\ nItems = 0
  /\ concurrencyLimit = 0
  /\ willFail = {}
  /\ next = 1
  /\ cbState = <<>>
  /\ invoked = <<>>
  /\ queue = <<>>
  /\ pc = "idle"
  /\ waitState = "none"
  /\ waitOn = {}
  /\ waitErr = NoError
  /\ result = NoError
  /\ failOrder = <<>>

\* No AzureAccountManager is being constructed.
CtorIdle ==
  /\ provider = ""
  /\ adds = <<>>
  /\ registered = 0
  /\ logins = 0
  /\ fired = 0
  /\ handlerRuns = <<>>
  /\ cachedStatus = ""
  /\ updates = 0
  /\ notified = 0

\* No AzureAccountManager is in use.
AcctIdle ==
  /\ acct = <<>>
  /\ prov = <<>>
  /\ events = <<>>
  /\ tasks = <<>>
  /\ ncalls = 0
  /\ tick = <<>>

\* buildFileTree has not been called side by side.
PairIdle ==
  /\ runs = <<>>
  /\ arrays = <<>>
  /\ trees = <<>>

\* ---------------------------------------------------------- limiter
LimInit ==
  /\ nItems \in 0..MaxItems
  /\ concurrencyLimit \in Limits
  /\ willFail \in SUBSET (1..nItems)
  /\ next = 1
  /\ cbState = [i \in 1..nItems |-> "idle"]
  /\ invoked = [i \in 1..nItems |-> 0]
  /\ queue = <<>>
  /\ pc = "loop"
  /\ waitState = "none"
  /\ waitOn = {}
  /\ waitErr = NoError
  /\ result = NoError
  /\ failOrder = <<>>
  /\ RetIdle /\ ToIdle /\ TreeIdle /\ BldIdle /\ LsIdle /\ PairIdle /\ AcctIdle /\ CtorIdle

\* Mutant: the capacity test off by one.
AtCapacityStrict(q) == Len(q) > concurrencyLimit

\* Mutant: a limit of zero or less counts as no limit.
AtCapacityPositive(q) == concurrencyLimit > 0 /\ Len(q) >= concurrencyLimit

\* if (queue.length >= concurrencyLimit)
AtCapacity(q) == Len(q) >= concurrencyLimit

\* Mutant: the loop takes the items from the end of the list.
ItemOfPassReversed(k) == nItems + 1 - k

\* for (const item of items): the item of the k-th pass of the loop.
ItemOfPass(k) == k

\* One iteration of the for loop, up to the await of Promise.race or to the
\* head of the next iteration.  No promise settles while the loop runs.
DispatchStep ==
  /\ pc = "loop"
  /\ next <= nItems
  /\ LET q == Append(queue, ItemOfPass(next)) IN
       /\ queue' = q
       /\ cbState' = [cbState EXCEPT ![ItemOfPass(next)] = "pending"]
       /\ invoked' = [invoked EXCEPT ![ItemOfPass(next)] = @ + 1]
       /\ next' = next + 1
       /\ IF AtCapacity(q)
            THEN /\ pc' = "race"
                 /\ waitState' = RaceState(q)
                 /\ waitOn' = {q[k] : k \in 1..Len(q)}
                 /\ waitErr' = FirstRejectedErr(q)
            ELSE /\ pc' = "loop"
                 /\ UNCHANGED <<waitState, waitOn, waitErr>>
  /\ UNCHANGED <<nItems, concurrencyLimit, willFail, result, failOrder>>

\* The loop is over: await Promise.all(queue).
JoinStep ==
  /\ pc = "loop"
  /\ next > nItems
  /\ pc' = "all"
  /\ waitState' = AllState(queue)
  /\ waitOn' = {queue[k] : k \in 1..Len(queue)}
  /\ waitErr' = FirstRejectedErr(queue)
  /\ UNCHANGED <<nItems, concurrencyLimit, willFail, next, cbState, invoked,
                 queue, result, failOrder>>

\* Mutant: the .catch handler swallows the error, so p fulfils.
WaitAfterSwallow(i, ok) ==
  IF waitState # "pending" \/ i \notin waitOn
    THEN <<waitState, waitErr>>
  ELSE IF pc = "race"
    THEN <<"fulfilled", NoError>>
  ELSE IF \A j \in waitOn \ {i} : cbState[j] \in {"fulfilled", "rejected"}
    THEN <<"fulfilled", NoError>>
  ELSE <<waitState, waitErr>>

\* Mutant: the .catch handler returns a promise that never settles.
WaitAfterHang(i, ok) ==
  IF waitState # "pending" \/ i \notin waitOn \/ ~ok
    THEN <<waitState, waitErr>>
  ELSE IF pc = "race"
    THEN <<"fulfilled", NoError>>
  ELSE IF \A j \in waitOn \ {i} : cbState[j] = "fulfilled"
    THEN <<"fulfilled", NoError>>
  ELSE <<waitState, waitErr>>

\* Mutant: the final join waits for one promise only (Promise.race).
WaitAfterJoinRace(i, ok) ==
  IF waitState # "pending" \/ i \notin waitOn
    THEN <<waitState, waitErr>>
  ELSE IF ~ok
    THEN <<"rejected", Rethrow(ErrorOf(i))>>
  ELSE <<"fulfilled", NoError>>

\* The combinator being awaited, after the promise p of item i has settled.
WaitAfter(i, ok) ==
  IF waitState # "pending" \/ i \notin waitOn
    THEN <<waitState, waitErr>>
  ELSE IF ~ok
    THEN <<"rejected", Rethrow(ErrorOf(i))>>
  ELSE IF pc = "race"
    THEN <<"fulfilled", NoError>>
  ELSE IF \A j \in waitOn \ {i} : cbState[j] = "fulfilled"
    THEN <<"fulfilled", NoError>>
  ELSE <<waitState, waitErr>>

\* Mutant: a callback no longer completes once the function has rejected.
FulfilStepCancelled(i) ==
  /\ pc \notin {"loop", "rejected"}
  /\ cbState[i] = "pending"
  /\ i \notin willFail
  /\ cbState' = [cbState EXCEPT ![i] = "fulfilled"]
  /\ queue' = RemoveFromQueue(queue, i)
  /\ waitState' = WaitAfter(i, TRUE)[1]
  /\ waitErr' = WaitAfter(i, TRUE)[2]
  /\ UNCHANGED <<nItems, concurrencyLimit, willFail, next, invoked, pc, waitOn,
                 result, failOrder>>

\* The callback of item i fulfils: the .then handler takes p out of the queue.
FulfilStep(i) ==
  /\ pc # "loop"
  /\ cbState[i] = "pending"
  /\ i \notin willFail
  /\ cbState' = [cbState EXCEPT ![i] = "fulfilled"]
  /\ queue' = RemoveFromQueue(queue, i)
  /\ waitState' = WaitAfter(i, TRUE)[1]
  /\ waitErr' = WaitAfter(i, TRUE)[2]
  /\ UNCHANGED <<nItems, concurrencyLimit, willFail, next, invoked, pc, waitOn,
                 result, failOrder>>

\* The callback of item i rejects: the .then handler is skipped, the .catch
\* handler rethrows, and p stays in the queue, rejected.
RejectStep(i) ==
  /\ pc # "loop"
  /\ cbState[i] = "pending"
  /\ i \in willFail
  /\ cbState' = [cbState EXCEPT ![i] = "rejected"]
  /\ failOrder' = Append(failOrder, i)
  /\ waitState' = WaitAfter(i, FALSE)[1]
  /\ waitErr' = WaitAfter(i, FALSE)[2]
  /\ UNCHANGED <<nItems, concurrencyLimit, willFail, next, invoked, queue, pc,
                 waitOn, result>>

\* The await resumes: Promise.race lets the loop go on, Promise.all ends the
\* function, and a rejection of either is thrown out of the function.
ResumeStep ==
  /\ pc \in {"race", "all"}
  /\ waitState \in {"fulfilled", "rejected"}
  /\ IF waitState = "rejected"
       THEN pc' = "rejected" /\ result' = waitErr
       ELSE pc' = (IF pc = "race" THEN "loop" ELSE "resolved") /\ result' = result
  /\ waitState' = "none"
  /\ waitOn' = {}
  /\ waitErr' = NoError
  /\ UNCHANGED <<nItems, concurrencyLimit, willFail, next, cbState, invoked,
                 queue, failOrder>>

\* runWithLimitedConcurrency on its own: nothing else changes.
NotLimVars == <<retVars, toVars, treeVars, bldVars, lsVars, pairVars, acctVars, ctorVars>>

Dispatch == DispatchStep /\ UNCHANGED NotLimVars

Join == JoinStep /\ UNCHANGED NotLimVars

Fulfil(i) == FulfilStep(i) /\ UNCHANGED NotLimVars

Reject(i) == RejectStep(i) /\ UNCHANGED NotLimVars

Resume == ResumeStep /\ UNCHANGED NotLimVars

Settle == \E i \in Items : Fulfil(i) \/ Reject(i)

Next ==
  \/ Dispatch
  \/ Join
  \/ \E i \in Items : Fulfil(i)
  \/ \E i \in Items : Reject(i)
  \/ Resume

Spec == LimInit /\ [][Next]_vars

\* Every job that is ready runs, and every started callback settles.
FairSpec == Spec /\ WF_vars(Dispatch) /\ WF_vars(Join) /\ WF_vars(Resume)
                 /\ WF_vars(Settle)

\* ------------------------------------------------ sendRequestWithRetry
\* The statuses a response can carry in the model: the two success codes,
\* another 2xx code, a client error, the ends of [500,600) and the values next
\* to them, and 0, which JavaScript treats as falsy.
Statuses == {0, 200, 201, 204, 404, 499, 500, 503, 599, 600}

\* What the k-th call of requestFn can end with:
\*   a response object that requestFn resolves with, which JSON.stringify
\*     can serialise or not (a response that holds a circular reference, as
\*     the `request` of an axios response in node, makes it throw),
\*   an error object that it rejects with, whose response?.status is a number
\*     or undefined (no response: a network-layer failure),
\*   a rejection with no reason (e is undefined).
\* Each call makes its own object, so the object carries the call's number.
Response(s, k) ==
  [kind |-> "response", status |-> s, attempt |-> k, json |-> "string"]
CircularResponse(s, k) ==
  [kind |-> "response", status |-> s, attempt |-> k, json |-> "throws"]
RequestError(s, k) == [kind |-> "error", status |-> s, attempt |-> k]
NullishRejection(k) == [kind |-> "nullish", status |-> NoStatus, attempt |-> k]

Outcomes(k) ==
  {Response(s, k) : s \in Statuses}
    \cup {CircularResponse(s, k) : s \in Statuses}
    \cup {RequestError(s, k) : s \in Statuses \cup {NoStatus}}
    \cup {NullishRejection(k)}

\* new Error(`HTTP Request failed: ${JSON.stringify(res)}`)
HttpFailed(res) == [kind |-> "httpFailed", of |-> res]

\* The TypeError that JSON.stringify(res) throws at line 49, inside the try,
\* when res cannot be serialised.
StringifyError(res) == [kind |-> "typeError", of |-> res]

\* new Error(`RequestWithRetry got bad tryLimits: ${tryLimits}`)
BadTryLimits(n) == [kind |-> "badTryLimits", tryLimits |-> n]

\* const canTry = (status) => !status || (status >= 500 && status < 600)
\* !status holds of undefined and of 0.
canTry(s) == (s = NoStatus \/ s = 0) \/ (s >= 500 /\ s < 600)

\* Mutant: every 2xx status counts as success.
IsSuccessStatus2xx(s) == s >= 200 /\ s < 300

\* res.status === 200 || res.status === 201
IsSuccessStatus(s) == s = 200 \/ s = 201

\* Mutant: the loop gives up one attempt early.
LoopCondShort == loopI < tryLimits - 1 /\ canTry(status)

\* Mutant: the loop allows one attempt too many.
LoopCondLong == loopI <= tryLimits /\ canTry(status)

\* i < tryLimits && canTry(status)
LoopCond == loopI < tryLimits /\ canTry(status)

\* error ??= fallback
NullishCoalesce(e, fallback) == IF e = Undefined THEN fallback ELSE e

\* The values of `error` and `status` after one pass of the loop body that
\* did not return: the else branch and line 51, or the catch block.  When
\* JSON.stringify throws in the else branch, line 51 is skipped and the
\* catch block records the TypeError, which has no response.
ErrorAfter(o) ==
  IF o.kind = "response"
  THEN IF o.json = "throws" THEN StringifyError(o) ELSE HttpFailed(o)
  ELSE IF o.kind \in {"error", "cancel"} THEN o
  ELSE Undefined

StatusAfter(o) ==
  IF o.kind = "response" /\ o.json = "throws" THEN NoStatus ELSE o.status

RetInit ==
  /\ tryLimits \in (0 - 1)..MaxTry
  /\ loopI = 0
  /\ status = NoStatus
  /\ error = Undefined
  /\ rpc = "loop"
  /\ ret = Undefined
  /\ hist = <<>>
  /\ LimIdle /\ ToIdle /\ TreeIdle /\ BldIdle /\ LsIdle /\ PairIdle /\ AcctIdle /\ CtorIdle

\* The rest of a pass of the loop body once requestFn has settled with o:
\* return res, or record error and status and go to the loop head.
AttemptEnds(o) ==
  /\ hist' = Append(hist, o)
  /\ IF o.kind = "response" /\ IsSuccessStatus(o.status)
       THEN /\ rpc' = "returned"
            /\ ret' = o
            /\ UNCHANGED <<loopI, status, error>>
       ELSE /\ error' = ErrorAfter(o)
            /\ status' = StatusAfter(o)
            /\ loopI' = loopI + 1
            /\ rpc' = "loop"
            /\ UNCHANGED ret
  /\ UNCHANGED tryLimits

\* The loop is left without a return: error ??= ...; throw error
RetryExitStep ==
  /\ rpc = "loop"
  /\ ~LoopCond
  /\ error' = NullishCoalesce(error, BadTryLimits(tryLimits))
  /\ ret' = error'
  /\ rpc' = "thrown"
  /\ UNCHANGED <<tryLimits, loopI, status, hist>>

\* sendRequestWithRetry on its own: nothing else changes.
NotRetVars == <<limVars, toVars, treeVars, bldVars, lsVars, pairVars, acctVars, ctorVars>>

\* A pass of the loop body starts: requestFn() is called and awaited.
RetryRequest ==
  /\ rpc = "loop"
  /\ LoopCond
  /\ rpc' = "inflight"
  /\ UNCHANGED <<tryLimits, loopI, status, error, ret, hist>>
  /\ UNCHANGED NotRetVars

\* The request settles and the pass of the loop body ends.
RetryResponse ==
  /\ rpc = "inflight"
  /\ \E o \in Outcomes(loopI + 1) : AttemptEnds(o)
  /\ UNCHANGED NotRetVars

RetryExit == RetryExitStep /\ UNCHANGED NotRetVars

RetNext ==
  \/ RetryRequest
  \/ RetryResponse
  \/ RetryExit

RetrySpec == RetInit /\ [][RetNext]_vars

\* ---------------------------------------------- sendRequestWithTimeout
\* const source = axios.CancelToken.source(): the one token of the call.
SourceToken == [source |-> "call"]

\* Mutant: every attempt gets a token of its own.
TokenForFresh(k) == [source |-> "attempt", attempt |-> k]

\* () => requestFn(source.token): the token passed to the k-th call.
TokenFor(k) == SourceToken

\* The rejection of a request whose token was cancelled (an axios Cancel): it
\* carries no response.
CancelRejection(k) == [kind |-> "cancel", status |-> NoStatus, attempt |-> k]

\* What the k-th call of requestFn can end with, given the token it got.
\* Cancellation is cooperative: a request whose token is cancelled can reject
\* with the cancellation, and can as well end like any other request.
TimedOutcomes(k, token) ==
  Outcomes(k) \cup (IF token \in cancelledTokens THEN {CancelRejection(k)} ELSE {})

\* axios.isCancel(err)
isCancel(err) == err.kind = "cancel"

\* new Error("Request timeout")
RequestTimeout == [kind |-> "timeout"]

\* The timer callback: source.cancel()
TimeoutCallback == cancelledTokens \cup {SourceToken}

ToInit ==
  /\ tryLimits \in (0 - 1)..MaxTry
  /\ loopI = 0
  /\ status = NoStatus
  /\ error = Undefined
  /\ rpc = "idle"
  /\ ret = Undefined
  /\ hist = <<>>
  /\ ToIdle
  /\ LimIdle /\ TreeIdle /\ BldIdle /\ LsIdle /\ PairIdle /\ AcctIdle /\ CtorIdle

NotToVars == <<limVars, treeVars, bldVars, lsVars, pairVars, acctVars, ctorVars>>

\* The call, up to the entry of sendRequestWithRetry: the token source is made
\* and the timer is started.
TimeoutCall ==
  /\ tpc = "idle"
  /\ tpc' = "running"
  /\ timer' = "armed"
  /\ timersStarted' = timersStarted + 1
  /\ rpc' = "loop"
  /\ UNCHANGED <<tret, cancelledTokens, tokens, firedAt>>
  /\ UNCHANGED <<tryLimits, loopI, status, error, ret, hist>>
  /\ UNCHANGED NotToVars

\* A pass of the retry loop starts: requestFn(source.token) is called.
TimeoutRequest ==
  /\ tpc = "running"
  /\ rpc = "loop"
  /\ LoopCond
  /\ rpc' = "inflight"
  /\ tokens' = Append(tokens, [token |-> TokenFor(loopI + 1),
                               live |-> TokenFor(loopI + 1) \notin cancelledTokens,
                               late |-> timer = "fired"])
  /\ UNCHANGED <<tpc, tret, timer, cancelledTokens, timersStarted, firedAt>>
  /\ UNCHANGED <<tryLimits, loopI, status, error, ret, hist>>
  /\ UNCHANGED NotToVars

\* The request settles and the pass of the retry loop ends.
TimeoutResponse ==
  /\ tpc = "running"
  /\ rpc = "inflight"
  /\ \E o \in TimedOutcomes(loopI + 1, tokens[Len(tokens)].token) : AttemptEnds(o)
  /\ UNCHANGED toVars
  /\ UNCHANGED NotToVars

\* The retry loop is left by throwing.
TimeoutRetryExit ==
  /\ tpc = "running"
  /\ RetryExitStep
  /\ UNCHANGED toVars
  /\ UNCHANGED NotToVars

\* sendRequestWithRetry returned: clearTimeout(timeout); return res
TimeoutReturn ==
  /\ tpc = "running"
  /\ rpc = "returned"
  /\ timer' = (IF timer = "armed" THEN "cleared" ELSE timer)
  /\ tpc' = "returned"
  /\ tret' = ret
  /\ UNCHANGED <<cancelledTokens, tokens, timersStarted, firedAt>>
  /\ UNCHANGED retVars
  /\ UNCHANGED NotToVars

\* sendRequestWithRetry threw: the catch block.
TimeoutCatch ==
  /\ tpc = "running"
  /\ rpc = "thrown"
  /\ tpc' = "thrown"
  /\ tret' = (IF isCancel(ret) THEN RequestTimeout ELSE ret)
  /\ UNCHANGED <<timer, cancelledTokens, tokens, timersStarted, firedAt>>
  /\ UNCHANGED retVars
  /\ UNCHANGED NotToVars

\* The timer fires.  It is a job of its own: it runs while the call awaits
\* requestFn, or after the call has settled with the timer still armed.
TimerFires ==
  /\ timer = "armed"
  /\ rpc = "inflight" \/ tpc \in {"returned", "thrown"}
  /\ timer' = "fired"
  /\ cancelledTokens' = TimeoutCallback
  /\ firedAt' = (IF tpc = "running" THEN "inflight" ELSE "settled")
  /\ UNCHANGED <<tpc, tret, tokens, timersStarted>>
  /\ UNCHANGED retVars
  /\ UNCHANGED NotToVars

ToNext ==
  \/ TimeoutCall
  \/ TimeoutRequest
  \/ TimeoutResponse
  \/ TimeoutRetryExit
  \/ TimeoutReturn
  \/ TimeoutCatch
  \/ TimerFires

TimeoutSpec == ToInit /\ [][ToNext]_vars

\* ---------------------------------------------------------- fileTreeAdd
\* A path is the sequence of its segments; a directory node is a record with
\* name and children, a file node a record with a name only.
MaxInserts == 3

Names == {"a", "b"}

RelativePaths ==
  {<<x>> : x \in Names}
    \cup {<<x, y>> : x \in Names, y \in Names}
    \cup {<<x, y, z>> : x \in Names, y \in Names, z \in Names}

\* { name: segment, children: [] }
NewDir(name) == [name |-> name, children |-> <<>>]

\* { name: filename }
NewLeaf(name) == [name |-> name]

\* The folder whose content is shown, as buildFileTree gets it.
relativeFolderName == "sample"

\* const root = { name: relativeFolderName, children: [] }
NewRoot == NewDir(relativeFolderName)

\* path.basename(relativePath)
Basename(relativePath) == relativePath[Len(relativePath)]

\* path.dirname(relativePath), split at the separator: "." for a bare name.
Dirname(relativePath) ==
  IF Len(relativePath) = 1
    THEN <<".">>
    ELSE SubSeq(relativePath, 1, Len(relativePath) - 1)

\* Whether node.children is defined, so that children?.find and
\* children?.push act.
HasChildren(node) == "children" \in DOMAIN node

\* Mutant: a segment never finds an existing child.
FindIndexNever(children, segment) == 0

\* children.find((child) => child.name === segment), as an index; 0 when
\* nothing is found.
FindIndex(children, segment) ==
  IF \E i \in 1..Len(children) : children[i].name = segment
    THEN CHOOSE i \in 1..Len(children) :
           /\ children[i].name = segment
           /\ \A j \in 1..(i - 1) : children[j].name # segment
    ELSE 0

\* The loop over the segments and the final push, as the change they make to
\* the subtree of parent.  Below a node without children nothing is found and
\* nothing is pushed: the nodes made from there on are not attached.
RECURSIVE AddUnder(_, _, _)
AddUnder(parent, segments, filename) ==
  IF ~HasChildren(parent) THEN parent
  ELSE IF segments = <<>>
    THEN [parent EXCEPT !.children = Append(@, NewLeaf(filename))]
  ELSE IF Head(segments) = "."
    THEN AddUnder(parent, Tail(segments), filename)
  ELSE LET i == FindIndex(parent.children, Head(segments)) IN
    IF i = 0
      THEN [parent EXCEPT !.children =
              Append(@, AddUnder(NewDir(Head(segments)), Tail(segments), filename))]
      ELSE [parent EXCEPT !.children[i] = AddUnder(@, Tail(segments), filename)]

fileTreeAdd(tree, relativePath) ==
  AddUnder(tree, Dirname(relativePath), Basename(relativePath))

TreeInit ==
  /\ root = NewRoot
  /\ inserted = <<>>
  /\ LimIdle /\ RetIdle /\ ToIdle /\ BldIdle /\ LsIdle /\ PairIdle /\ AcctIdle /\ CtorIdle

NotTreeVars == <<limVars, retVars, toVars, bldVars, lsVars, pairVars, acctVars, ctorVars>>

\* One call of fileTreeAdd.
TreeInsert ==
  /\ Len(inserted) < MaxInserts
  /\ \E relativePath \in RelativePaths :
       /\ root' = fileTreeAdd(root, relativePath)
       /\ inserted' = Append(inserted, relativePath)
  /\ UNCHANGED NotTreeVars

TreeNext == TreeInsert

TreeSpec == TreeInit /\ [][TreeNext]_vars

\* -------------------------------------------------------- buildFileTree
MaxPaths == 3

\* The sample paths of a listing, in listing order; a call gets a prefix.
BuildPaths ==
  << <<relativeFolderName, "a", "b.txt">>,
     <<relativeFolderName, "a", "c.txt">>,
     <<relativeFolderName, "d.txt">>,
     <<relativeFolderName, "a", "e", "f.txt">>,
     <<relativeFolderName, "g.txt">> >>

RECURSIVE CommonLen(_, _)
CommonLen(p, q) ==
  IF p = <<>> \/ q = <<>> THEN 0
  ELSE IF Head(p) # Head(q) THEN 0
  ELSE 1 + CommonLen(Tail(p), Tail(q))

\* path.relative(from, to) on segments: up from what is left of from, then
\* down what is left of to.
Relative(from, to) ==
  LET c == CommonLen(from, to) IN
    [k \in 1..(Len(from) - c) |-> ".."] \o SubSeq(to, c + 1, Len(to))

\* path.relative(`${relativeFolderName}/`, samplePath)
RelativePathOf(samplePath) == Relative(<<relativeFolderName>>, samplePath)

\* The local folder the files go to, as both functions get it.
dstPath == <<"dst">>

\* path.normalize on segments: "." is dropped and ".." takes back the segment
\* before it.
RECURSIVE NormalizeOnto(_, _)
NormalizeOnto(acc, p) ==
  IF p = <<>> THEN acc
  ELSE IF Head(p) = "." THEN NormalizeOnto(acc, Tail(p))
  ELSE IF Head(p) = ".." /\ acc # <<>> /\ acc[Len(acc)] # ".."
    THEN NormalizeOnto(SubSeq(acc, 1, Len(acc) - 1), Tail(p))
  ELSE NormalizeOnto(Append(acc, Head(p)), Tail(p))

\* path.join(a, b)
PathJoin(a, b) == NormalizeOnto(<<>>, a \o b)

\* Mutant: buildFileTree writes to the relative path under dstPath.
BuildFilePathRelative(samplePath) ==
  PathJoin(dstPath, Relative(<<relativeFolderName>>, samplePath))

\* buildFileTree: filePath = path.join(dstPath, samplePath)
BuildFilePath(samplePath) == PathJoin(dstPath, samplePath)


\* downloadSampleFiles: filePath = path.join(dstPath,
\* path.relative(`${relativePath}/`, samplePath)), called with the folder that
\* buildFileTree gets as relativeFolderName.
DownloadFilePath(samplePath) ==
  PathJoin(dstPath, Relative(<<relativeFolderName>>, samplePath))

\* The content of a file that fs.ensureFile has made, and the content that
\* Buffer.from(file.data) gives for the response to the request of a path.
EmptyFile == [bytes |-> "none"]

DataOf(samplePath) == [bytes |-> samplePath]

\* fs.ensureFile(filePath): the file is there afterwards; a file that was
\* there keeps its content.
ensureFile(files, filePath) ==
  IF \E f \in files : f.path = filePath
    THEN files
    ELSE files \cup {[path |-> filePath, content |-> EmptyFile]}

\* fs.writeFile(filePath, data): the file has the data as its content.
writeFile(files, filePath, data) ==
  {f \in files : f.path # filePath} \cup {[path |-> filePath, content |-> data]}

\* The entries of the log of file operations of downloadSampleFiles.
EnsureFile(filePath) == [op |-> "ensureFile", path |-> filePath]

WriteFile(filePath) == [op |-> "writeFile", path |-> filePath]

\* Mutant: the callback forgets the insertion.
TreeAfterFetchSkip(i) == root

\* The tree after the callback of item i has got its file: fileTreeAdd(root,
\* relativePath, filePath).
TreeAfterFetch(i) == fileTreeAdd(root, RelativePathOf(samplePaths[i]))

BuildInit ==
  /\ samplePaths \in {SubSeq(BuildPaths, 1, n) : n \in 0..MaxPaths}
  /\ nItems = Len(samplePaths)
  /\ concurrencyLimit \in Limits
  /\ failAt \in [1..nItems -> {"none", "fetch", "ensure", "write"}]
  /\ willFail = {i \in 1..nItems : failAt[i] # "none"}
  /\ stage = [i \in 1..nItems |-> "idle"]
  /\ next = 1
  /\ cbState = [i \in 1..nItems |-> "idle"]
  /\ invoked = [i \in 1..nItems |-> 0]
  /\ queue = <<>>
  /\ pc = "loop"
  /\ waitState = "none"
  /\ waitOn = {}
  /\ waitErr = NoError
  /\ result = NoError
  /\ failOrder = <<>>
  /\ writeLog = <<>>
  /\ disk = {}
  /\ root = NewRoot
  /\ inserted = <<>>
  /\ RetIdle /\ ToIdle /\ LsIdle /\ PairIdle /\ AcctIdle /\ CtorIdle

NotBldVars == <<retVars, toVars, lsVars, pairVars, acctVars, ctorVars>>

\* The loop starts the callback of the next path: it runs up to the await of
\* the request.
BuildDispatch ==
  /\ DispatchStep
  /\ stage' = [stage EXCEPT ![ItemOfPass(next)] = "fetching"]
  /\ UNCHANGED <<samplePaths, failAt, writeLog, disk, treeVars>>
  /\ UNCHANGED NotBldVars

BuildJoin ==
  /\ JoinStep
  /\ UNCHANGED <<bldVars, treeVars>>
  /\ UNCHANGED NotBldVars

\* The request of path i returns: the path is put into the tree and the
\* callback calls fs.ensureFile.
FetchDone(i) ==
  /\ pc # "loop"
  /\ i \in 1..nItems
  /\ stage[i] = "fetching"
  /\ failAt[i] # "fetch"
  /\ root' = TreeAfterFetch(i)
  /\ inserted' = Append(inserted, RelativePathOf(samplePaths[i]))
  /\ stage' = [stage EXCEPT ![i] = "ensuring"]
  /\ UNCHANGED <<samplePaths, failAt, writeLog, disk, limVars>>
  /\ UNCHANGED NotBldVars

\* The request of path i throws: so does the callback.
FetchFails(i) ==
  /\ i \in 1..nItems
  /\ stage[i] = "fetching"
  /\ failAt[i] = "fetch"
  /\ RejectStep(i)
  /\ stage' = [stage EXCEPT ![i] = "failed"]
  /\ UNCHANGED <<samplePaths, failAt, writeLog, disk, treeVars>>
  /\ UNCHANGED NotBldVars

\* fs.ensureFile of path i is done: the callback calls fs.writeFile.
EnsureDone(i) ==
  /\ pc # "loop"
  /\ i \in 1..nItems
  /\ stage[i] = "ensuring"
  /\ failAt[i] # "ensure"
  /\ stage' = [stage EXCEPT ![i] = "writing"]
  /\ disk' = ensureFile(disk, BuildFilePath(samplePaths[i]))
  /\ UNCHANGED <<samplePaths, failAt, writeLog, limVars, treeVars>>
  /\ UNCHANGED NotBldVars

\* fs.ensureFile of path i throws: so does the callback.
EnsureFails(i) ==
  /\ i \in 1..nItems
  /\ stage[i] = "ensuring"
  /\ failAt[i] = "ensure"
  /\ RejectStep(i)
  /\ stage' = [stage EXCEPT ![i] = "failed"]
  /\ UNCHANGED <<samplePaths, failAt, writeLog, disk, treeVars>>
  /\ UNCHANGED NotBldVars

\* fs.writeFile of path i is done: the callback returns.
WriteDone(i) ==
  /\ i \in 1..nItems
  /\ stage[i] = "writing"
  /\ failAt[i] # "write"
  /\ FulfilStep(i)
  /\ stage' = [stage EXCEPT ![i] = "done"]
  /\ disk' = writeFile(disk, BuildFilePath(samplePaths[i]),
                       DataOf(samplePaths[i]))
  /\ UNCHANGED <<samplePaths, failAt, writeLog, treeVars>>
  /\ UNCHANGED NotBldVars

\* fs.writeFile of path i throws: so does the callback.
WriteFails(i) ==
  /\ i \in 1..nItems
  /\ stage[i] = "writing"
  /\ failAt[i] = "write"
  /\ RejectStep(i)
  /\ stage' = [stage EXCEPT ![i] = "failed"]
  /\ UNCHANGED <<samplePaths, failAt, writeLog, disk, treeVars>>
  /\ UNCHANGED NotBldVars

\* The await of runWithLimitedConcurrency's loop or join resumes; after the
\* join buildFileTree returns root.children.
BuildResume ==
  /\ ResumeStep
  /\ UNCHANGED <<bldVars, treeVars>>
  /\ UNCHANGED NotBldVars

BuildNext ==
  \/ BuildDispatch
  \/ BuildJoin
  \/ \E i \in Items : FetchDone(i)
  \/ \E i \in Items : FetchFails(i)
  \/ \E i \in Items : EnsureDone(i)
  \/ \E i \in Items : EnsureFails(i)
  \/ \E i \in Items : WriteDone(i)
  \/ \E i \in Items : WriteFails(i)
  \/ BuildResume

BuildSpec == BuildInit /\ [][BuildNext]_vars

\* --------------------------------------------------- downloadSampleFiles
DownloadInit ==
  /\ samplePaths \in {SubSeq(BuildPaths, 1, n) : n \in 0..MaxPaths}
  /\ nItems = Len(samplePaths)
  /\ concurrencyLimit \in Limits
  /\ failAt \in [1..nItems -> {"none", "fetch", "ensure", "write"}]
  /\ willFail = {i \in 1..nItems : failAt[i] # "none"}
  /\ stage = [i \in 1..nItems |-> "idle"]
  /\ writeLog = <<>>
  /\ disk = {}
  /\ next = 1
  /\ cbState = [i \in 1..nItems |-> "idle"]
  /\ invoked = [i \in 1..nItems |-> 0]
  /\ queue = <<>>
  /\ pc = "loop"
  /\ waitState = "none"
  /\ waitOn = {}
  /\ waitErr = NoError
  /\ result = NoError
  /\ failOrder = <<>>
  /\ TreeIdle /\ RetIdle /\ ToIdle /\ LsIdle /\ PairIdle /\ AcctIdle /\ CtorIdle

NotDlVars == <<retVars, toVars, treeVars, lsVars, pairVars, acctVars, ctorVars>>

\* The loop starts the callback of the next path: it runs up to the await of
\* the request.
DownloadDispatch ==
  /\ DispatchStep
  /\ stage' = [stage EXCEPT ![ItemOfPass(next)] = "fetching"]
  /\ UNCHANGED <<samplePaths, failAt, writeLog, disk>>
  /\ UNCHANGED NotDlVars

DownloadJoin ==
  /\ JoinStep
  /\ UNCHANGED bldVars
  /\ UNCHANGED NotDlVars

\* Mutant: the callback writes without ensuring the file first.
StepAfterFetchWrite == "writing"

\* What the callback does next when its request has returned: await
\* fs.ensureFile(filePath).
StepAfterFetch == "ensuring"

\* The request of path i returns: the callback computes filePath and calls
\* fs.ensureFile.
DownloadFetched(i) ==
  /\ pc # "loop"
  /\ i \in 1..nItems
  /\ stage[i] = "fetching"
  /\ failAt[i] # "fetch"
  /\ stage' = [stage EXCEPT ![i] = StepAfterFetch]
  /\ UNCHANGED <<samplePaths, failAt, writeLog, disk, limVars>>
  /\ UNCHANGED NotDlVars

\* The request of path i throws: so does the callback.
DownloadFetchFails(i) ==
  /\ i \in 1..nItems
  /\ stage[i] = "fetching"
  /\ failAt[i] = "fetch"
  /\ RejectStep(i)
  /\ stage' = [stage EXCEPT ![i] = "failed"]
  /\ UNCHANGED <<samplePaths, failAt, writeLog, disk>>
  /\ UNCHANGED NotDlVars

\* fs.ensureFile of path i is done: the callback calls fs.writeFile.
DownloadEnsured(i) ==
  /\ pc # "loop"
  /\ i \in 1..nItems
  /\ stage[i] = "ensuring"
  /\ failAt[i] # "ensure"
  /\ stage' = [stage EXCEPT ![i] = "writing"]
  /\ writeLog' = Append(writeLog, EnsureFile(DownloadFilePath(samplePaths[i])))
  /\ UNCHANGED <<samplePaths, failAt, disk, limVars>>
  /\ UNCHANGED NotDlVars

\* fs.ensureFile of path i throws: so does the callback.
DownloadEnsureFails(i) ==
  /\ i \in 1..nItems
  /\ stage[i] = "ensuring"
  /\ failAt[i] = "ensure"
  /\ RejectStep(i)
  /\ stage' = [stage EXCEPT ![i] = "failed"]
  /\ UNCHANGED <<samplePaths, failAt, writeLog, disk>>
  /\ UNCHANGED NotDlVars

\* fs.writeFile of path i is done: the callback returns.
DownloadWritten(i) ==
  /\ i \in 1..nItems
  /\ stage[i] = "writing"
  /\ failAt[i] # "write"
  /\ FulfilStep(i)
  /\ stage' = [stage EXCEPT ![i] = "done"]
  /\ writeLog' = Append(writeLog, WriteFile(DownloadFilePath(samplePaths[i])))
  /\ UNCHANGED <<samplePaths, failAt, disk>>
  /\ UNCHANGED NotDlVars

\* fs.writeFile of path i throws: so does the callback.
DownloadWriteFails(i) ==
  /\ i \in 1..nItems
  /\ stage[i] = "writing"
  /\ failAt[i] = "write"
  /\ RejectStep(i)
  /\ stage' = [stage EXCEPT ![i] = "failed"]
  /\ UNCHANGED <<samplePaths, failAt, writeLog, disk>>
  /\ UNCHANGED NotDlVars

\* The await of runWithLimitedConcurrency's loop or join resumes; after the
\* join downloadSampleFiles returns.
DownloadResume ==
  /\ ResumeStep
  /\ UNCHANGED bldVars
  /\ UNCHANGED NotDlVars

DownloadNext ==
  \/ DownloadDispatch
  \/ DownloadJoin
  \/ \E i \in Items : DownloadFetched(i)
  \/ \E i \in Items : DownloadFetchFails(i)
  \/ \E i \in Items : DownloadEnsured(i)
  \/ \E i \in Items : DownloadEnsureFails(i)
  \/ \E i \in Items : DownloadWritten(i)
  \/ \E i \in Items : DownloadWriteFails(i)
  \/ DownloadResume

DownloadSpec == DownloadInit /\ [][DownloadNext]_vars

\* --------------------------------- two calls of buildFileTree side by side
\* Each call has its own arguments and locals; the queue and the root are
\* objects, held by reference.  A promise is named by its call and its item.
MaxPairItems == 2

\* The concurrencyLimits a call gets: one callback at a time, or two.
PairLimits == {1, 2}

Calls == {1, 2}

\* Mutant: every call gets the object made first (a module-level object).
FreshRefShared(heap) == 1

\* The reference of an object made now: `const queue = []`, `const root = {}`.
FreshRef(heap) == Len(heap) + 1

PromiseState(x) ==
  LET st == runs[x[1]].stage[x[2]] IN
    IF st = "done" THEN "fulfilled"
    ELSE IF st = "failed" THEN "rejected"
    ELSE "pending"

SomeRejected(q) == \E k \in 1..Len(q) : PromiseState(q[k]) = "rejected"

\* The combinator that call s awaits, after promise x has settled.
PairWaitAfter(s, x, ok) ==
  LET w == runs[s] IN
    IF w.wait # "pending" \/ x \notin w.waitOn THEN w.wait
    ELSE IF ~ok THEN "rejected"
    ELSE IF w.pc = "race" THEN "fulfilled"
    ELSE IF \A y \in w.waitOn \ {x} : PromiseState(y) = "fulfilled" THEN "fulfilled"
    ELSE "pending"

\* JavaScript runs one job at a time: while a call runs its loop, nothing
\* else runs.
NoLoopRuns == \A s \in Calls : runs[s].pc # "loop"

PairInit ==
  /\ \E n \in 1..MaxPairItems :
       \E fa \in [1..n -> {"none", "fetch", "ensure", "write"}] :
         \E lim \in [Calls -> PairLimits] :
           runs = [r \in Calls |->
                     [paths |-> SubSeq(BuildPaths, 1, n),
                      limit |-> lim[r],
                      failAt |-> fa,
                      stage |-> [i \in 1..n |-> "idle"],
                      next |-> 1,
                      pc |-> "idle",
                      wait |-> "none",
                      waitOn |-> {},
                      queueAt |-> 0,
                      rootAt |-> 0]]
  /\ arrays = <<>>
  /\ trees = <<>>
  /\ LimIdle /\ RetIdle /\ ToIdle /\ TreeIdle /\ BldIdle /\ LsIdle /\ AcctIdle /\ CtorIdle

NotPairVars == <<limVars, retVars, toVars, treeVars, bldVars, lsVars, acctVars, ctorVars>>

\* buildFileTree is called: root is made, then the queue of
\* runWithLimitedConcurrency.
PairCall(r) ==
  /\ NoLoopRuns
  /\ runs[r].pc = "idle"
  /\ trees' = Append(trees, NewRoot)
  /\ arrays' = Append(arrays, <<>>)
  /\ runs' = [runs EXCEPT ![r].pc = "loop",
                          ![r].rootAt = FreshRef(trees),
                          ![r].queueAt = FreshRef(arrays)]
  /\ UNCHANGED NotPairVars

\* One pass of the loop of call r.
PairDispatch(r) ==
  /\ runs[r].pc = "loop"
  /\ runs[r].next <= Len(runs[r].paths)
  /\ LET q == Append(arrays[runs[r].queueAt], <<r, runs[r].next>>) IN
       /\ arrays' = [arrays EXCEPT ![runs[r].queueAt] = q]
       /\ runs' = [runs EXCEPT
            ![r].stage[runs[r].next] = "fetching",
            ![r].next = @ + 1,
            ![r].pc = IF Len(q) >= runs[r].limit THEN "race" ELSE "loop",
            ![r].wait = IF Len(q) >= runs[r].limit
                          THEN (IF SomeRejected(q) THEN "rejected" ELSE "pending")
                          ELSE "none",
            ![r].waitOn = IF Len(q) >= runs[r].limit
                            THEN {q[k] : k \in 1..Len(q)} ELSE {}]
  /\ UNCHANGED trees
  /\ UNCHANGED NotPairVars

\* The loop of call r is over: await Promise.all(queue).
PairJoin(r) ==
  /\ runs[r].pc = "loop"
  /\ runs[r].next > Len(runs[r].paths)
  /\ LET q == arrays[runs[r].queueAt] IN
       runs' = [runs EXCEPT
         ![r].pc = "all",
         ![r].wait = IF q = <<>> THEN "fulfilled"
                     ELSE IF SomeRejected(q) THEN "rejected" ELSE "pending",
         ![r].waitOn = {q[k] : k \in 1..Len(q)}]
  /\ UNCHANGED <<arrays, trees>>
  /\ UNCHANGED NotPairVars

\* The promise of item i of call r rejects: every combinator that holds it
\* learns of it.
PairRejects(r, i) ==
  runs' = [s \in Calls |->
             IF s = r
               THEN [runs[r] EXCEPT !.stage[i] = "failed",
                                    !.wait = PairWaitAfter(r, <<r, i>>, FALSE)]
               ELSE [runs[s] EXCEPT !.wait = PairWaitAfter(s, <<r, i>>, FALSE)]]

\* The request of item i of call r returns: the path goes into the tree of
\* the call and the callback calls fs.ensureFile.
PairFetched(r, i) ==
  /\ NoLoopRuns
  /\ i \in 1..Len(runs[r].paths)
  /\ runs[r].stage[i] = "fetching"
  /\ runs[r].failAt[i] # "fetch"
  /\ trees' = [trees EXCEPT ![runs[r].rootAt] =
                 fileTreeAdd(@, RelativePathOf(runs[r].paths[i]))]
  /\ runs' = [runs EXCEPT ![r].stage[i] = "ensuring"]
  /\ UNCHANGED arrays
  /\ UNCHANGED NotPairVars

\* The request of item i of call r throws.
PairFetchFails(r, i) ==
  /\ NoLoopRuns
  /\ i \in 1..Len(runs[r].paths)
  /\ runs[r].stage[i] = "fetching"
  /\ runs[r].failAt[i] = "fetch"
  /\ PairRejects(r, i)
  /\ UNCHANGED <<arrays, trees>>
  /\ UNCHANGED NotPairVars

\* fs.ensureFile of item i of call r is done: the callback calls fs.writeFile.
PairEnsured(r, i) ==
  /\ NoLoopRuns
  /\ i \in 1..Len(runs[r].paths)
  /\ runs[r].stage[i] = "ensuring"
  /\ runs[r].failAt[i] # "ensure"
  /\ runs' = [runs EXCEPT ![r].stage[i] = "writing"]
  /\ UNCHANGED <<arrays, trees>>
  /\ UNCHANGED NotPairVars

\* fs.ensureFile of item i of call r throws.
PairEnsureFails(r, i) ==
  /\ NoLoopRuns
  /\ i \in 1..Len(runs[r].paths)
  /\ runs[r].stage[i] = "ensuring"
  /\ runs[r].failAt[i] = "ensure"
  /\ PairRejects(r, i)
  /\ UNCHANGED <<arrays, trees>>
  /\ UNCHANGED NotPairVars

\* fs.writeFile of item i of call r is done: the callback fulfils and the
\* .then handler takes its promise out of the queue of the call.
PairWritten(r, i) ==
  /\ NoLoopRuns
  /\ i \in 1..Len(runs[r].paths)
  /\ runs[r].stage[i] = "writing"
  /\ runs[r].failAt[i] # "write"
  /\ arrays' = [arrays EXCEPT ![runs[r].queueAt] = RemoveFromQueue(@, <<r, i>>)]
  /\ runs' = [s \in Calls |->
                IF s = r
                  THEN [runs[r] EXCEPT !.stage[i] = "done",
                                       !.wait = PairWaitAfter(r, <<r, i>>, TRUE)]
                  ELSE [runs[s] EXCEPT !.wait = PairWaitAfter(s, <<r, i>>, TRUE)]]
  /\ UNCHANGED trees
  /\ UNCHANGED NotPairVars

\* fs.writeFile of item i of call r throws.
PairWriteFails(r, i) ==
  /\ NoLoopRuns
  /\ i \in 1..Len(runs[r].paths)
  /\ runs[r].stage[i] = "writing"
  /\ runs[r].failAt[i] = "write"
  /\ PairRejects(r, i)
  /\ UNCHANGED <<arrays, trees>>
  /\ UNCHANGED NotPairVars

\* The await of call r resumes.
PairResume(r) ==
  /\ NoLoopRuns
  /\ runs[r].pc \in {"race", "all"}
  /\ runs[r].wait \in {"fulfilled", "rejected"}
  /\ runs' = [runs EXCEPT
       ![r].pc = IF runs[r].wait = "rejected" THEN "rejected"
                 ELSE IF runs[r].pc = "race" THEN "loop" ELSE "resolved",
       ![r].wait = "none",
       ![r].waitOn = {}]
  /\ UNCHANGED <<arrays, trees>>
  /\ UNCHANGED NotPairVars

PairNext ==
  \/ \E r \in Calls : PairCall(r)
  \/ \E r \in Calls : PairDispatch(r)
  \/ \E r \in Calls : PairJoin(r)
  \/ \E r \in Calls : \E i \in 1..MaxPairItems : PairFetched(r, i)
  \/ \E r \in Calls : \E i \in 1..MaxPairItems : PairFetchFails(r, i)
  \/ \E r \in Calls : \E i \in 1..MaxPairItems : PairEnsured(r, i)
  \/ \E r \in Calls : \E i \in 1..MaxPairItems : PairEnsureFails(r, i)
  \/ \E r \in Calls : \E i \in 1..MaxPairItems : PairWritten(r, i)
  \/ \E r \in Calls : \E i \in 1..MaxPairItems : PairWriteFails(r, i)
  \/ \E r \in Calls : PairResume(r)

PairSpec == PairInit /\ [][PairNext]_vars

\* ----------------------------------------------------- getSampleFileInfo
\* A string is the sequence of its characters.
MaxListing == 3

\* Paths of a recursive git tree listing: the directory itself, entries under
\* it, under a sibling whose name begins alike, and under another directory.
ListPaths ==
  { <<"s">>,
    <<"s", "/", "a">>,
    <<"s", "/", "b", "/", "c">>,
    <<"s", "x", "/", "a">>,
    <<"t", "/", "s", "/", "a">> }

\* The type of a listing entry: a file, a directory, a submodule.
Types == {"blob", "tree", "commit"}

\* An entry of the listing; the answer is cast, not validated (`as
\* SampleFileInfo`), so an entry can lack its path.
Entries == [path : ListPaths, type : Types] \cup {[type |-> "blob"]}

\* fileInfo.tree
Listings == UNION {[1..n -> Entries] : n \in 0..MaxListing}

\* The data of the response: nothing, an object without tree and sha, or a
\* listing with its sha.
FileInfos ==
  {Undefined, [url |-> "trees"]}
    \cup {[tree |-> t, sha |-> "sha"] : t \in Listings}

\* obj?.field is defined.
Has(obj, field) == field \in DOMAIN obj

\* urlInfo.dir
Dirs == { <<"s">>, <<"s", "x">> }

\* The retryLimits argument.
ListRetryLimits == {0, 1, 2}

\* What the k-th call of axios.get ends with: the listing, an answer without
\* content, a rejection for a status that is retried and for one that is not.
ListOutcomes(k) ==
  {Response(200, k), Response(204, k), RequestError(404, k), RequestError(500, k)}

\* s.startsWith(prefix)
StartsWith(s, prefix) ==
  /\ Len(prefix) <= Len(s)
  /\ SubSeq(s, 1, Len(prefix)) = prefix

\* Mutant: the prefix lacks the slash.
DirPrefixNoSlash(d) == d

\* `${urlInfo.dir}/`
DirPrefix(d) == d \o <<"/">>

\* The predicate of the filter.
Qualifies(node, d) ==
  /\ StartsWith(node.path, DirPrefix(d))
  /\ node.type # "tree"

\* fileInfo?.tree?.filter(...).map((node) => node.path): undefined when the
\* data or its tree is missing.
SamplePathsOf(fileInfo, d) ==
  IF ~Has(fileInfo, "tree") THEN Undefined
  ELSE LET kept == SelectSeq(fileInfo.tree, LAMBDA node : Qualifies(node, d)) IN
         [k \in 1..Len(kept) |-> kept[k].path]

\* node.path.startsWith(...) on an entry without path throws a TypeError.
FilterThrows(fileInfo) ==
  /\ Has(fileInfo, "tree")
  /\ \E k \in 1..Len(fileInfo.tree) : ~Has(fileInfo.tree[k], "path")

\* TypeError: Cannot read properties of undefined (reading 'startsWith')
StartsWithOfUndefined == [kind |-> "typeError", of |-> "startsWith"]

\* `https://raw.githubusercontent.com/${owner}/${repository}/${fileInfo?.sha}/`:
\* a missing sha is rendered as the text undefined.
FileUrlPrefix(fileInfo) ==
  <<"https://raw.githubusercontent.com/owner/repository/",
    IF Has(fileInfo, "sha") THEN fileInfo.sha ELSE "undefined",
    "/">>

ListInit ==
  /\ dir \in Dirs
  /\ listing = Undefined
  /\ lpc = "idle"
  /\ listed = Undefined
  /\ tryLimits \in ListRetryLimits
  /\ loopI = 0
  /\ status = NoStatus
  /\ error = Undefined
  /\ rpc = "idle"
  /\ ret = Undefined
  /\ hist = <<>>
  /\ LimIdle /\ ToIdle /\ TreeIdle /\ BldIdle /\ PairIdle /\ AcctIdle /\ CtorIdle

NotLsVars == <<limVars, toVars, treeVars, bldVars, pairVars, acctVars, ctorVars>>

\* The call, up to the entry of sendRequestWithRetry.
ListCall ==
  /\ lpc = "idle"
  /\ lpc' = "fetching"
  /\ rpc' = "loop"
  /\ UNCHANGED <<listing, dir, listed>>
  /\ UNCHANGED <<tryLimits, loopI, status, error, ret, hist>>
  /\ UNCHANGED NotLsVars

\* A pass of the retry loop starts: axios.get(fileInfoUrl) is called.
ListRequest ==
  /\ lpc = "fetching"
  /\ rpc = "loop"
  /\ LoopCond
  /\ rpc' = "inflight"
  /\ UNCHANGED <<tryLimits, loopI, status, error, ret, hist>>
  /\ UNCHANGED lsVars
  /\ UNCHANGED NotLsVars

\* The request settles and the pass of the retry loop ends.
ListResponse ==
  /\ lpc = "fetching"
  /\ rpc = "inflight"
  /\ \E o \in ListOutcomes(loopI + 1) : AttemptEnds(o)
  /\ UNCHANGED lsVars
  /\ UNCHANGED NotLsVars

\* The retry loop is left by throwing.
ListRetryExit ==
  /\ lpc = "fetching"
  /\ RetryExitStep
  /\ UNCHANGED lsVars
  /\ UNCHANGED NotLsVars

\* sendRequestWithRetry threw: the await rethrows and the call rejects.
ListRejects ==
  /\ lpc = "fetching"
  /\ rpc = "thrown"
  /\ lpc' = "thrown"
  /\ listed' = ret
  /\ UNCHANGED <<listing, dir>>
  /\ UNCHANGED retVars
  /\ UNCHANGED NotLsVars

\* sendRequestWithRetry returned the response: its data is filtered, mapped
\* and returned with the prefix.
ListReturn ==
  /\ lpc = "fetching"
  /\ rpc = "returned"
  /\ \E fileInfo \in FileInfos :
       /\ ~FilterThrows(fileInfo)
       /\ listing' = fileInfo
       /\ listed' = [samplePaths |-> SamplePathsOf(fileInfo, dir),
                     fileUrlPrefix |-> FileUrlPrefix(fileInfo)]
  /\ lpc' = "done"
  /\ UNCHANGED dir
  /\ UNCHANGED retVars
  /\ UNCHANGED NotLsVars

\* sendRequestWithRetry returned the response and the filter throws on an
\* entry without path.
ListFilterThrows ==
  /\ lpc = "fetching"
  /\ rpc = "returned"
  /\ \E fileInfo \in FileInfos :
       /\ FilterThrows(fileInfo)
       /\ listing' = fileInfo
  /\ listed' = StartsWithOfUndefined
  /\ lpc' = "thrown"
  /\ UNCHANGED dir
  /\ UNCHANGED retVars
  /\ UNCHANGED NotLsVars

ListNext ==
  \/ ListCall
  \/ ListRequest
  \/ ListResponse
  \/ ListRetryExit
  \/ ListRejects
  \/ ListReturn
  \/ ListFilterThrows

ListSpec == ListInit /\ [][ListNext]_vars

\* --------------------------------- AzureAccountManager, construction
\* The constructor starts addStatusChangeEvent and does not wait for it;
\* isUserLogin starts it again whenever it finds the provider undefined.
\* Each call of addStatusChangeEvent runs from await to await: the factory
\* (line 391), updateLoginStatus (393), notifyStatus (394), the factory
\* again (398), and then it registers the two handlers.  statusChange is
\* never assigned in azureLogin.ts, so updateLoginStatus asks isUserLogin
\* and returns.  The factory is not part of azureLogin.ts: it resolves to a
\* provider or to undefined (lines 392 and 397 test for it), or it rejects.

\* `undefined` in a string-valued static field.
Unset == "undefined"

\* The status strings of common/constants.
loggedIn == "loggedIn"
loggedOut == "loggedOut"

\* The awaits of addStatusChangeEvent, in the order a call passes them.
Stages == {"factory", "update", "notify", "refactory"}

NoAdds == [s \in Stages |-> 0]

\* What subscriptionProviderFactory() resolves to.
Providers == {"ready", Unset}

\* A call of addStatusChangeEvent while the static field provider is p: with
\* the provider undefined it awaits the factory at line 391, with a
\* provider it skips lines 390 to 396 and awaits the factory at line 398.
\* The calls run the same code on the same statics, so the state keeps how
\* many of them stand at each await.
AddStatusChangeEvent(calls, p) ==
  IF p = Unset THEN [calls EXCEPT !["factory"] = @ + 1]
  ELSE [calls EXCEPT !["refactory"] = @ + 1]

CtorInit ==
  /\ LimIdle /\ RetIdle /\ ToIdle /\ TreeIdle /\ BldIdle /\ LsIdle /\ PairIdle /\ AcctIdle
  /\ provider = Unset
  /\ adds = AddStatusChangeEvent(NoAdds, Unset)
  /\ registered = 0
  /\ logins = 0
  /\ fired = 0
  /\ handlerRuns = <<>>
  /\ cachedStatus = Unset
  /\ updates = 0
  /\ notified = 0

NotCtorVars ==
  <<limVars, retVars, toVars, treeVars, bldVars, lsVars, pairVars, acctVars>>

\* n calls of addStatusChangeEvent, one after the other in one run.
RECURSIVE AddStatusChangeEventTimes(_, _, _)
AddStatusChangeEventTimes(calls, p, n) ==
  IF n = 0 THEN calls
  ELSE AddStatusChangeEventTimes(AddStatusChangeEvent(calls, p), p, n - 1)

\* isUserLogin() is called n times in one run, lines 135 to 139: each call
\* that finds the provider undefined starts addStatusChangeEvent, which
\* leaves the provider undefined until the factory has answered.  No more
\* than limit such calls are followed.
StartsAdds(n, limit) ==
  IF provider = Unset /\ n > 0
  THEN /\ logins + n <= limit
       /\ logins' = logins + n
       /\ adds' = AddStatusChangeEventTimes(adds, provider, n)
  ELSE UNCHANGED <<logins, adds>>

\* isUserLogin(): with the provider undefined it starts addStatusChangeEvent
\* and returns false; otherwise it asks the provider.
IsUserLogin ==
  /\ StartsAdds(1, MaxLogins)
  /\ UNCHANGED <<provider, registered, fired, handlerRuns, cachedStatus,
                 updates, notified>>
  /\ UNCHANGED NotCtorVars

\* A call of addStatusChangeEvent moves from the await named from to the
\* one named to, or to its end.
AddMoves(from, to) ==
  /\ adds[from] > 0
  /\ adds' = IF to = "end" THEN [adds EXCEPT ![from] = @ - 1]
             ELSE [adds EXCEPT ![from] = @ - 1, ![to] = @ + 1]
  /\ UNCHANGED <<logins, fired, handlerRuns, cachedStatus, updates, notified>>
  /\ UNCHANGED NotCtorVars

\* `provider = await subscriptionProviderFactory()` at line 391: with a
\* provider updateLoginStatus is called; with undefined both tests, at
\* lines 392 and 397, fail and the call ends.
FactoryResolves ==
  \E p \in Providers :
    /\ AddMoves("factory", IF p = Unset THEN "end" ELSE "update")
    /\ provider' = p
    /\ registered' = registered

\* `await this.updateLoginStatus()` at line 393.
LoginStatusUpdated ==
  /\ AddMoves("update", "notify")
  /\ UNCHANGED <<provider, registered>>

\* `await this.notifyStatus()` at line 394, and the test of the provider at
\* line 397: the factory is awaited again, unless the provider is undefined
\* by now.
StatusNotified ==
  /\ AddMoves("notify", IF provider = Unset THEN "end" ELSE "refactory")
  /\ UNCHANGED <<provider, registered>>

\* `provider = await subscriptionProviderFactory()` at line 398, and the
\* registration of the onDidSignIn and onDidSignOut handlers; on undefined
\* `provider.onDidSignIn` throws and nothing is registered.
RegistersHandlers ==
  \E p \in Providers :
    /\ AddMoves("refactory", "end")
    /\ provider' = p
    /\ registered' = IF p = Unset THEN registered ELSE registered + 1

\* A promise that a call of addStatusChangeEvent awaits rejects: the
\* factory, provider.isSignedIn() inside updateLoginStatus, or notifyStatus.
\* Nothing catches it; the call ends there.
AddRejects ==
  /\ \E s \in Stages : AddMoves(s, "end")
  /\ UNCHANGED <<provider, registered>>

\* The provider fires a sign-in or a sign-out event: every registered
\* handler of that event is run.
ProviderFires ==
  /\ fired < MaxSignals
  /\ fired' = fired + 1
  /\ \E kind \in {"signIn", "signOut"} :
       handlerRuns' = handlerRuns \o
         [j \in 1..registered |-> [kind |-> kind, at |-> "start"]]
  /\ UNCHANGED <<provider, adds, registered, logins, cachedStatus, updates,
                 notified>>
  /\ UNCHANGED NotCtorVars

\* A handler starts: it caches the status (the status update) and goes on
\* to updateLoginStatus (sign-in), which calls isUserLogin, or straight to
\* the notification.
HandlerStarts(j) ==
  /\ handlerRuns[j].at = "start"
  /\ handlerRuns' = [handlerRuns EXCEPT ![j].at = "notify"]
  /\ cachedStatus' = IF handlerRuns[j].kind = "signIn" THEN loggedIn
                     ELSE loggedOut
  /\ updates' = updates + 1
  /\ StartsAdds(IF handlerRuns[j].kind = "signIn" THEN 1 ELSE 0, MaxLogins)
  /\ UNCHANGED <<provider, registered, fired, notified>>
  /\ UNCHANGED NotCtorVars

\* `await this.notifyStatus()` of a handler.
HandlerNotifies(j) ==
  /\ handlerRuns[j].at = "notify"
  /\ handlerRuns' = [handlerRuns EXCEPT ![j].at = "done"]
  /\ notified' = notified + 1
  /\ UNCHANGED <<provider, adds, registered, logins, fired, cachedStatus,
                 updates>>
  /\ UNCHANGED NotCtorVars

CtorNext ==
  \/ IsUserLogin
  \/ FactoryResolves
  \/ LoginStatusUpdated
  \/ StatusNotified
  \/ RegistersHandlers
  \/ AddRejects
  \/ ProviderFires
  \/ \E j \in 1..Len(handlerRuns) : HandlerStarts(j)
  \/ \E j \in 1..Len(handlerRuns) : HandlerNotifies(j)

CtorSpec == CtorInit /\ [][CtorNext]_vars

\* -------------------------------------------------- AzureAccountManager
\* azureLogin.ts.  The manager keeps the selected subscription in static
\* fields and asks an AzureSubscriptionProvider whether the user is signed
\* in and which subscriptions the account has.  Every method is async: a
\* step of the model is the run of one call from one await to the next, so
\* that calls interleave at their awaits and nowhere else.  The model starts
\* when the exported instance has been constructed (line 534): the provider
\* is undefined and the constructor's addStatusChangeEvent is waiting for
\* the factory.
\*
\* A promise of the provider, of the credential or of a dialog settles in a
\* turn of the event loop, and the continuation of the call that awaits it
\* is queued.  The continuations of the promises settled in one turn run in
\* the order the promises settled, each up to its next await; a caller whose
\* callee returned in that run resumes after all of them.  A step that
\* settles a promise is the settling together with that continuation;
\* where the caller reads the static fields when it resumes, its resumption
\* is a step of its own.  The provider, the credential and the telemetry
\* are not part of azureLogin.ts: a promise of theirs fulfils or rejects,
\* and a call of the telemetry returns or throws.

\* The lists of subscriptions that provider.getSubscriptions answers with:
\* the account has none, one or two when it is asked.
Sub1 == [subscriptionId |-> "s1", tenantId |-> "t1", name |-> "n1"]
Sub2 == [subscriptionId |-> "s2", tenantId |-> "t2", name |-> "n2"]
Accounts == {<<>>, <<Sub1>>, <<Sub1, Sub2>>}

\* What a caller passes to setSubscription: the empty string, or the id of
\* a subscription, which the list that the provider answers with may lack.
SubscriptionIds == {"", "s1", "s2"}

\* What credential.getToken answers: an access token, or null.
Tokens == {"jwt", "null"}

\* The calls of the manager's methods that are under way side by side, by
\* name; the name of a call that has settled is taken by the next call.
TaskIds == {1, 2}

\* The values a finished call settles with.
Void == [kind |-> "void"]
Pending == [kind |-> "pending"]
Bool(b) == [kind |-> "bool", value |-> b]
Error(name) == [kind |-> "error", name |-> name]
SelectedSub(a) ==
  [kind |-> "sub", subscriptionId |-> a.subscriptionId,
   tenantId |-> a.tenantId,
   subscriptionName |->
     IF a.subscriptionName = Unset THEN "" ELSE a.subscriptionName]

\* subs[0].credential
Credential == [kind |-> "credential"]

\* The array listSubscriptions returns.
ListValue(arr) == [kind |-> "list", items |-> arr]

\* The entry listSubscriptions pushes for an item of the provider's list.
SubscriptionInfo(item) ==
  [subscriptionId |-> item.subscriptionId, subscriptionName |-> item.name,
   tenantId |-> item.tenantId]

\* JSON.parse of the payload of the token; undefined without a token.
JsonOf(token) == IF token = "null" THEN Undefined ELSE [upn |-> "u@x"]

\* The objects getStatus resolves with.
SignedInStatus(token, info) ==
  [kind |-> "status", status |-> "SignedIn",
   token |-> IF token = "null" THEN Unset ELSE token, accountInfo |-> info]

SignedOutStatus ==
  [kind |-> "status", status |-> "SignedOut", token |-> Unset,
   accountInfo |-> Undefined]

\* A call not made yet.  noProvider tells, while the call awaits
\* isUserLogin, that isUserLogin found the provider undefined; subs is the
\* list that provider.getSubscriptions answered setSubscription with in the
\* step just taken; did is what the call has done so far while it is under
\* way.
NoTask ==
  [op |-> "none", pc |-> "idle", stack |-> <<>>, sid |-> "",
   triggerUI |-> FALSE, showDialog |-> TRUE, list |-> <<>>, subs |-> <<>>,
   token |-> "none", noProvider |-> FALSE, out |-> Pending, did |-> {}]

\* No promise has settled in this turn of the event loop.
NoTick == [stepped |-> {}, draining |-> FALSE]

\* The promise of call t fulfils with v / rejects with the error `name`:
\* the method, the id that setSubscription was called with and the outcome
\* stay, the locals of the call are gone.
Resolve(t, v) ==
  [NoTask EXCEPT !.op = t.op,
                 !.sid = IF t.op = "setSubscription" THEN t.sid ELSE "",
                 !.pc = "end", !.out = v]

Throw(t, name) == Resolve(t, Error(name))

\* The call suspends at the await named at; frames are the calls it is
\* inside of from now on, innermost first.
Await(t, at, frames) ==
  [t EXCEPT !.pc = at, !.stack = frames \o @, !.noProvider = FALSE,
            !.subs = <<>>]

\* The awaits of isUserLogin().
IsLoginSites ==
  {"set.isLogin", "gic.isLogin", "status.isLogin", "login.check",
   "dgac.isLogin", "list.isLogin"}

\* `await this.isUserLogin()`: isUserLogin is called and the call suspends
\* until its promise settles, with false when isUserLogin found the provider
\* undefined and with the answer of provider.isSignedIn() otherwise.
AwaitIsUserLogin(t, at) ==
  [Await(t, at, <<>>) EXCEPT !.noProvider = (provider = Unset)]

\* A method of the static field provider is called and awaited at the await
\* named at; on an undefined provider the call throws a TypeError.
AwaitProvider(t, at) ==
  IF provider = Unset THEN Throw(t, "TypeError") ELSE Await(t, at, <<>>)

\* login, lines 160 to 163: the telemetry event is sent, sent telling that
\* the telemetry returned, and provider.signIn() is called and awaited.
SignIn(t, sent) ==
  IF ~sent THEN Throw(t, "TelemetryError")
  ELSE IF provider = Unset THEN Throw(t, "TypeError")
  ELSE [Await(t, "login.signIn", <<>>) EXCEPT !.did = @ \cup {"signIn"}]

\* login(showDialog): it awaits the confirmation dialog first when
\* showDialog is set.
EnterLogin(t, showDialog, frames, sent) ==
  LET u == [t EXCEPT !.stack = frames \o @]
  IN IF showDialog
     THEN [Await(u, "login.dialog", <<>>) EXCEPT !.did = @ \cup {"loginDialog"}]
     ELSE SignIn(u, sent)

\* getIdentityCredentialAsync after `await this.isUserLogin()`: signed in,
\* the credential is fetched; signed out, login(showDialog) is called first.
AfterCredentialIsLogin(t, signedIn, sent) ==
  IF signedIn THEN AwaitIsUserLogin(t, "dgac.isLogin")
  ELSE EnterLogin(t, t.showDialog, <<"gic.afterLogin">>, sent)

\* getIdentityCredentialAsync(showDialog): it awaits isUserLogin first.
EnterCredential(t, showDialog, frames) ==
  AwaitIsUserLogin([t EXCEPT !.showDialog = showDialog,
                             !.stack = frames \o @], "gic.isLogin")

\* listSubscriptions(): it awaits getIdentityCredentialAsync() first, with
\* the default showDialog = true.
EnterList(t, frames) == EnterCredential(t, TRUE, <<"list.afterGic">> \o frames)

\* getJsonObject(showDialog): it awaits getIdentityCredentialAsync first.
EnterJson(t, showDialog, frames) ==
  EnterCredential(t, showDialog, <<"json.afterGic">> \o frames)

\* setSubscription after `await this.isUserLogin()`: signed in, the
\* subscriptions are asked for; signed out, no subscription can match and
\* the promise rejects.
AfterSetIsLogin(t, signedIn) ==
  IF signedIn THEN AwaitProvider(t, "set.subs")
  ELSE Throw(t, "UnknownSubscription")

\* setSubscription(id) with a non-empty id: it awaits isUserLogin first.
EnterSet(t, id, frames) ==
  AwaitIsUserLogin([t EXCEPT !.sid = id, !.stack = frames \o @],
                   "set.isLogin")

\* getStatus returned st.  Called by doesUserConfirmSignout, the upn of the
\* account info is read, which throws on undefined, and the confirmation is
\* awaited; called from outside, the promise fulfils.
AfterStatus(t, st) ==
  IF t.op = "signout"
  THEN IF st.accountInfo = Undefined THEN Throw(t, "TypeError")
       ELSE Await(t, "signout.dialog", <<>>)
  ELSE Resolve(t, st)

\* getStatus after `await this.isUserLogin()`.
AfterStatusIsLogin(t, signedIn) ==
  IF signedIn
  THEN AwaitIsUserLogin([t EXCEPT !.stack = <<"status.afterCred">> \o @],
                        "dgac.isLogin")
  ELSE AfterStatus(t, SignedOutStatus)

\* getStatus(): it awaits isUserLogin first.
EnterStatus(t) == AwaitIsUserLogin(t, "status.isLogin")

\* The end of getSelectedSubscription: the selection when the cached status
\* is loggedIn and a subscription id is stored, undefined otherwise.
SelectionOf(a) ==
  IF a.currentStatus = loggedIn /\ a.subscriptionId # Unset
  THEN SelectedSub(a)
  ELSE Undefined

\* The frames of getSelectedSubscription: on resuming there it reads the
\* static fields.
FieldReaders == {"gss.afterLogin", "gss.afterList", "gss.final"}

\* The innermost call of t returns v.  Its caller's continuation is queued;
\* a continuation that reads no static field is run here, up to the caller's
\* next await, its return or its throw, and one that reads them is left to
\* run later.
\* A return calls isUserLogin only where the caller's continuation does.
Return(t, v) ==
  IF t.stack = <<>> THEN Resolve(t, v)
  ELSE
    LET frame == Head(t.stack)
        u == [t EXCEPT !.stack = Tail(@)]
    IN CASE frame \in FieldReaders ->
              [t EXCEPT !.pc = "return", !.noProvider = FALSE]
         [] frame = "list.afterGic" -> AwaitIsUserLogin(u, "list.isLogin")
         [] frame = "gic.afterLogin" -> AwaitIsUserLogin(u, "dgac.isLogin")
         [] frame = "status.afterCred" -> Await(u, "status.getToken", <<>>)
         [] frame = "json.afterGic" -> Await(u, "json.getToken", <<>>)
         [] frame = "status.afterJson" ->
              AfterStatus(u, SignedInStatus(u.token, v))
         [] frame = "sel.afterList" ->
              IF Len(u.list) = 0 THEN Throw(u, "NoSubscriptionFound")
              ELSE IF Len(u.list) = 1
                   THEN EnterSet(u, u.list[1].subscriptionId, <<>>)
                   ELSE Await(u, "sel.ui", <<>>)

\* getSelectedSubscription resumes after the call it awaited; a is the
\* value of the static fields at that moment.
Continue(t, a) ==
  LET frame == Head(t.stack)
      u == [t EXCEPT !.stack = Tail(@)]
  IN CASE frame = "gss.afterLogin" ->
            IF a.currentStatus = loggedIn /\ a.subscriptionId = Unset
            THEN EnterList(u, <<"sel.afterList", "gss.final">>)
            ELSE Resolve(u, SelectionOf(a))
       [] frame = "gss.afterList" ->
            IF Len(u.list) = 1
            THEN EnterSet(u, u.list[1].subscriptionId, <<"gss.final">>)
            ELSE Resolve(u, SelectionOf(a))
       [] frame = "gss.final" -> Resolve(u, SelectionOf(a))

\* The static fields after setSubscription("") and after a match.
ClearSubscription(a) ==
  [a EXCEPT !.tenantId = Unset, !.subscriptionId = Unset,
            !.subscriptionName = Unset]

StoreSubscription(a, item) ==
  [a EXCEPT !.tenantId = item.tenantId,
            !.subscriptionId = item.subscriptionId,
            !.subscriptionName = item.name]

\* A sign-out that forgets the tenant and keeps the subscription id.
ClearOnSignoutTenantOnly(a) == [a EXCEPT !.tenantId = Unset]

\* The static fields after a sign-out that succeeded: the tenant and the
\* subscription id are cleared, the subscription name is not.
ClearOnSignout(a) ==
  [a EXCEPT !.tenantId = Unset, !.subscriptionId = Unset]

\* A loop that takes the first subscription of the list whatever its id.
MatchFromAny(list, id, i) == IF i > Len(list) THEN 0 ELSE i

\* The first subscription of the list with the given id, as the for loop
\* of setSubscription finds it; 0 when there is none.
RECURSIVE MatchFrom(_, _, _)
MatchFrom(list, id, i) ==
  IF i > Len(list) THEN 0
  ELSE IF list[i].subscriptionId = id THEN i
  ELSE MatchFrom(list, id, i + 1)

\* The provider changes its signed-in state to b and fires the event of
\* that change to the handlers registered on it; nothing is fired when the
\* state stays as it is.
ProviderBecomes(b) ==
  LET fires == prov.signedIn # b /\ registered > 0
  IN /\ fires => Len(events) < MaxWaiting
     /\ prov' = [prov EXCEPT !.signedIn = b]
     /\ events' = IF fires
                  THEN Append(events, IF b THEN "signIn" ELSE "signOut")
                  ELSE events

AcctInit ==
  /\ LimIdle /\ RetIdle /\ ToIdle /\ TreeIdle /\ BldIdle /\ LsIdle /\ PairIdle
  /\ acct = [subscriptionId |-> Unset, subscriptionName |-> Unset,
             tenantId |-> Unset, currentStatus |-> Unset]
  /\ \E b \in BOOLEAN : prov = [signedIn |-> b]
  /\ ncalls = 0
  /\ events = <<>>
  /\ tasks = [t \in TaskIds |-> NoTask]
  /\ tick = NoTick
  /\ provider = Unset
  /\ adds = AddStatusChangeEvent(NoAdds, Unset)
  /\ registered = 0
  /\ logins = 0
  /\ fired = 0
  /\ handlerRuns = <<>>
  /\ cachedStatus = ""
  /\ updates = 0
  /\ notified = 0

NotAcctVars ==
  <<limVars, retVars, toVars, treeVars, bldVars, lsVars, pairVars, fired,
    handlerRuns, cachedStatus, updates, notified>>

\* The caller of some call is waiting to resume.
ReturnPending(ts) == \E s \in TaskIds : ts[s].pc = "return"

\* The promise that call t awaits can settle now: the jobs of this turn of
\* the event loop are not running yet, and t has not run in it.
CanSettle(t) == ~tick.draining /\ t \notin tick.stepped

\* The turn of the event loop after the continuation of t ran, leaving the
\* calls as ts: it goes on while a caller waits to resume.
TickAfter(t, ts) ==
  IF ReturnPending(ts)
  THEN [stepped |-> tick.stepped \cup {t}, draining |-> FALSE]
  ELSE NoTick

\* Call t has run up to u: where it awaits isUserLogin and isUserLogin found
\* the provider undefined, addStatusChangeEvent was started on the way.  The
\* outcome of a call that settled before this step has been taken by its
\* caller, and its record is dropped.
RunsTo(t, u) ==
  /\ tasks' = [s \in TaskIds |->
                IF s = t THEN u
                ELSE IF tasks[s].pc = "end" THEN NoTask ELSE tasks[s]]
  /\ StartsAdds(IF u.noProvider THEN 1 ELSE 0, MaxRestarts)
  /\ UNCHANGED <<provider, registered>>
  /\ UNCHANGED NotAcctVars

\* The promise that call t awaits settles and t runs up to u.
Settles(t, u) ==
  /\ CanSettle(t)
  /\ RunsTo(t, u)
  /\ tick' = TickAfter(t, tasks')
  /\ UNCHANGED ncalls

\* The promise that call t awaits settles and t runs up to its next await,
\* leaving the provider and the static fields alone.
OnlyTask(t, u) ==
  /\ Settles(t, u)
  /\ UNCHANGED <<acct, prov, events>>

\* Call t is under way: it was made and has not settled.
UnderWay(t) == tasks[t].pc \notin {"idle", "end"}

\* A call can be made under the name t: no call that is under way has the
\* name, and it is the first such name.  A call is made whenever no code is
\* running, also while a caller waits to resume; the calls beyond the first
\* MaxSideBySide are followed when no other call is under way.
Free(t) ==
  /\ ~UnderWay(t)
  /\ \A s \in TaskIds : s < t => UnderWay(s)
  /\ (\E s \in TaskIds : UnderWay(s)) => ncalls < MaxSideBySide

\* The call t is made and runs as u up to its first await.
CallStep(t, u) ==
  /\ Free(t)
  /\ RunsTo(t, u)
  /\ ncalls' = IF ncalls < MaxSideBySide THEN ncalls + 1 ELSE ncalls
  /\ UNCHANGED <<prov, events, tick>>

At(t, at) == tasks[t].pc = at

\* setSubscription(id).  The empty id clears the selection at once; any
\* other id is looked up once the user is known to be signed in.
CallSetSubscription(t) ==
  \E id \in SubscriptionIds :
    LET u == [NoTask EXCEPT !.op = "setSubscription", !.sid = id]
    IN IF id = ""
       THEN /\ acct' = ClearSubscription(acct)
            /\ CallStep(t, Resolve(u, Void))
       ELSE /\ acct' = acct
            /\ CallStep(t, EnterSet(u, id, <<>>))

\* clearSub(): setSubscription("").
CallClearSub(t) ==
  /\ acct' = ClearSubscription(acct)
  /\ CallStep(t, Resolve([NoTask EXCEPT !.op = "clearSub"], Void))

\* selectSubscription(): it lists the subscriptions first.
CallSelectSubscription(t) ==
  /\ acct' = acct
  /\ CallStep(t, EnterList([NoTask EXCEPT !.op = "selectSubscription"],
                           <<"sel.afterList">>))

\* getSelectedSubscription(triggerUI).
CallGetSelectedSubscription(t) ==
  \E triggerUI \in BOOLEAN :
    LET u == [NoTask EXCEPT !.op = "getSelectedSubscription",
                            !.triggerUI = triggerUI]
        noSub == acct.currentStatus = loggedIn
                   /\ acct.subscriptionId = Unset
    IN /\ acct' = acct
       /\ CallStep(t,
            IF triggerUI
            THEN IF acct.currentStatus # loggedIn
                 THEN EnterLogin(u, TRUE, <<"gss.afterLogin">>, TRUE)
                 ELSE IF noSub
                      THEN EnterList(u, <<"sel.afterList", "gss.final">>)
                      ELSE Resolve(u, SelectionOf(acct))
            ELSE IF noSub
                 THEN EnterList(u, <<"gss.afterList">>)
                 ELSE Resolve(u, SelectionOf(acct)))

\* signout(): doesUserConfirmSignout asks getStatus for the account first.
CallSignout(t) ==
  /\ acct' = acct
  /\ CallStep(t, EnterStatus([NoTask EXCEPT !.op = "signout"]))

\* getIdentityCredentialAsync(showDialog).
CallGetIdentityCredentialAsync(t) ==
  \E showDialog \in BOOLEAN :
    /\ acct' = acct
    /\ CallStep(t, EnterCredential(
                  [NoTask EXCEPT !.op = "getIdentityCredentialAsync"],
                  showDialog, <<>>))

\* listSubscriptions().
CallListSubscriptions(t) ==
  /\ acct' = acct
  /\ CallStep(t, EnterList([NoTask EXCEPT !.op = "listSubscriptions"], <<>>))

\* getJsonObject(showDialog).
CallGetJsonObject(t) ==
  \E showDialog \in BOOLEAN :
    /\ acct' = acct
    /\ CallStep(t, EnterJson([NoTask EXCEPT !.op = "getJsonObject"],
                             showDialog, <<>>))

\* getAccountInfo(): the promise of getJsonObject() when the cached status
\* is loggedIn, undefined otherwise.
CallGetAccountInfo(t) ==
  LET u == [NoTask EXCEPT !.op = "getAccountInfo"]
  IN /\ acct' = acct
     /\ CallStep(t, IF acct.currentStatus = loggedIn
                    THEN EnterJson(u, TRUE, <<>>)
                    ELSE Resolve(u, Undefined))

\* getStatus().
CallGetStatus(t) ==
  /\ acct' = acct
  /\ CallStep(t, EnterStatus([NoTask EXCEPT !.op = "getStatus"]))

\* addStatusChangeEvent(), called from outside; nobody waits for it.
CallAddStatusChangeEvent ==
  /\ logins < MaxRestarts
  /\ logins' = logins + 1
  /\ adds' = AddStatusChangeEvent(adds, provider)
  /\ UNCHANGED <<acctVars, provider, registered>>
  /\ UNCHANGED NotAcctVars

\* What `await this.isUserLogin()` brings call t: false when isUserLogin
\* found the provider undefined (line 142); otherwise the answer of
\* provider.isSignedIn() (line 140), or its rejection.
IsUserLoginOutcomes(t) ==
  IF tasks[t].noProvider THEN {"false"}
  ELSE {IF prov.signedIn THEN "true" ELSE "false", "rejects"}

\* Call t goes on after `await this.isUserLogin()` brought o: a rejection
\* is caught nowhere, and an answer is passed on.
AfterIsUserLogin(t, o, ifTrue, ifFalse) ==
  CASE o = "rejects" -> Throw(t, "ProviderError")
    [] o = "true" -> ifTrue
    [] o = "false" -> ifFalse

\* setSubscription, `await this.isUserLogin()`.
SetIsLogin(t) ==
  /\ At(t, "set.isLogin")
  /\ \E o \in IsUserLoginOutcomes(t) :
       OnlyTask(t, AfterIsUserLogin(tasks[t], o,
                     AfterSetIsLogin(tasks[t], TRUE),
                     AfterSetIsLogin(tasks[t], FALSE)))

\* setSubscription, `await provider.getSubscriptions()` and the loop over
\* the list the provider answers with: the first match is stored, tenant,
\* id and name in one run, and the call returns; when the provider rejects,
\* so does the call.
SetSubs(t) ==
  /\ At(t, "set.subs")
  /\ \/ /\ acct' = acct
        /\ Settles(t, Throw(tasks[t], "ProviderError"))
     \/ \E subs \in Accounts :
          LET i == MatchFrom(subs, tasks[t].sid, 1)
          IN IF i = 0
             THEN /\ acct' = acct
                  /\ Settles(t, [Throw(tasks[t], "UnknownSubscription")
                                   EXCEPT !.subs = subs])
             ELSE /\ acct' = StoreSubscription(acct, subs[i])
                  /\ Settles(t, [Return(tasks[t], Void)
                                   EXCEPT !.subs = subs])
  /\ UNCHANGED <<prov, events>>

\* getIdentityCredentialAsync, `await this.isUserLogin()`.
CredentialIsLogin(t) ==
  /\ At(t, "gic.isLogin")
  /\ \E o \in IsUserLoginOutcomes(t), sent \in BOOLEAN :
       OnlyTask(t, AfterIsUserLogin(tasks[t], o,
                     AfterCredentialIsLogin(tasks[t], TRUE, sent),
                     AfterCredentialIsLogin(tasks[t], FALSE, sent)))

\* login, `await this.doesUserConfirmLogin()`: the user picks Sign in or
\* dismisses the dialog.
LoginDialog(t) ==
  /\ At(t, "login.dialog")
  /\ \E confirmed \in BOOLEAN, sent \in BOOLEAN :
       OnlyTask(t, IF confirmed THEN SignIn(tasks[t], sent)
                   ELSE Throw(tasks[t], "UserCancel"))

\* login, `await provider.signIn()`: the user signs in, the sign-in ends
\* without a session, or it rejects; isUserLogin is asked next.
LoginSignIn(t) ==
  /\ At(t, "login.signIn")
  /\ \E o \in {"signedIn", "noSession", "rejects"} :
       /\ IF o = "signedIn" THEN ProviderBecomes(TRUE)
          ELSE UNCHANGED <<prov, events>>
       /\ Settles(t, IF o = "rejects" THEN Throw(tasks[t], "ProviderError")
                     ELSE AwaitIsUserLogin(tasks[t], "login.check"))
  /\ UNCHANGED acct

\* login after `await this.isUserLogin()` at line 164.
AfterLoginCheck(t, signedIn) ==
  IF signedIn THEN Return(t, Void) ELSE Throw(t, "LoginTimeout")

\* login, `if (!(await this.isUserLogin()))`: login returns, or throws.
LoginCheck(t) ==
  /\ At(t, "login.check")
  /\ \E o \in IsUserLoginOutcomes(t) :
       OnlyTask(t, AfterIsUserLogin(tasks[t], o,
                     AfterLoginCheck(tasks[t], TRUE),
                     AfterLoginCheck(tasks[t], FALSE)))

\* doGetAccountCredentialAsync after `await this.isUserLogin()`.
AfterAccountIsLogin(t, signedIn) ==
  IF signedIn THEN AwaitProvider(t, "dgac.subs")
  ELSE Throw(t, "LoginFailureError")

\* doGetAccountCredentialAsync, `await this.isUserLogin()`.
AccountIsLogin(t) ==
  /\ At(t, "dgac.isLogin")
  /\ \E o \in IsUserLoginOutcomes(t) :
       OnlyTask(t, AfterIsUserLogin(tasks[t], o,
                     AfterAccountIsLogin(tasks[t], TRUE),
                     AfterAccountIsLogin(tasks[t], FALSE)))

\* doGetAccountCredentialAsync, `await provider.getSubscriptions(false)`:
\* the credential of the first subscription is returned, and
\* doGetIdentityCredentialAsync passes it on unless it is undefined; an
\* account without subscriptions has no credential.
AccountSubs(t) ==
  /\ At(t, "dgac.subs")
  /\ \/ OnlyTask(t, Throw(tasks[t], "ProviderError"))
     \/ \E subs \in Accounts, credential \in {Credential, Undefined} :
          OnlyTask(t, IF Len(subs) > 0 /\ credential # Undefined
                      THEN Return(tasks[t], credential)
                      ELSE Throw(tasks[t], "LoginFailureError"))

\* listSubscriptions after `await this.isUserLogin()`.
AfterListIsLogin(t, signedIn) ==
  IF signedIn THEN AwaitProvider(t, "list.subs")
  ELSE Return([t EXCEPT !.list = <<>>], ListValue(<<>>))

\* listSubscriptions, `await this.isUserLogin()`.
ListIsLogin(t) ==
  /\ At(t, "list.isLogin")
  /\ \E o \in IsUserLoginOutcomes(t) :
       OnlyTask(t, AfterIsUserLogin(tasks[t], o,
                     AfterListIsLogin(tasks[t], TRUE),
                     AfterListIsLogin(tasks[t], FALSE)))

\* listSubscriptions, `await provider.getSubscriptions()` and the loop that
\* fills the array.
ListSubs(t) ==
  /\ At(t, "list.subs")
  /\ \/ OnlyTask(t, Throw(tasks[t], "ProviderError"))
     \/ \E subs \in Accounts :
          LET arr == [k \in 1..Len(subs) |-> SubscriptionInfo(subs[k])]
          IN OnlyTask(t, Return([tasks[t] EXCEPT !.list = arr],
                                ListValue(arr)))

\* selectSubscription, `await VS_CODE_UI.selectOption(...)`: the user picks
\* one of the options or dismisses the list.
SelectOption(t) ==
  /\ At(t, "sel.ui")
  /\ \/ \E i \in 1..Len(tasks[t].list) :
          OnlyTask(t, EnterSet(tasks[t], tasks[t].list[i].subscriptionId, <<>>))
     \/ OnlyTask(t, Throw(tasks[t], "UserCancel"))

\* getStatus, `await this.isUserLogin()`.
StatusIsLogin(t) ==
  /\ At(t, "status.isLogin")
  /\ \E o \in IsUserLoginOutcomes(t) :
       OnlyTask(t, AfterIsUserLogin(tasks[t], o,
                     AfterStatusIsLogin(tasks[t], TRUE),
                     AfterStatusIsLogin(tasks[t], FALSE)))

\* getStatus, `await credential?.getToken(...)` at line 372; getJsonObject()
\* is called next.
StatusGetToken(t) ==
  /\ At(t, "status.getToken")
  /\ \/ \E token \in Tokens :
          OnlyTask(t, EnterJson([tasks[t] EXCEPT !.token = token], TRUE,
                                <<"status.afterJson">>))
     \/ OnlyTask(t, Throw(tasks[t], "ProviderError"))

\* getJsonObject, `await credential?.getToken(...)` at line 261: the payload
\* of the token is parsed and returned.
JsonGetToken(t) ==
  /\ At(t, "json.getToken")
  /\ \/ \E token \in Tokens : OnlyTask(t, Return(tasks[t], JsonOf(token)))
     \/ OnlyTask(t, Throw(tasks[t], "ProviderError"))

\* doesUserConfirmSignout, `await showInformationMessage(...)`, and line 290
\* of signout: provider.signOut() is called inside the try, where the
\* TypeError of an undefined provider is caught: the catch logs its message
\* and the promise fulfils with false, unless the log or the telemetry of
\* the catch, lines 301 and 302, throws, which nothing catches.
SignoutDialog(t) ==
  /\ At(t, "signout.dialog")
  /\ \E confirmed \in BOOLEAN, catchThrows \in BOOLEAN :
       OnlyTask(t, IF ~confirmed THEN Throw(tasks[t], "UserCancel")
                   ELSE IF provider = Unset
                   THEN IF catchThrows THEN Throw(tasks[t], "TelemetryError")
                        ELSE Resolve(tasks[t], Bool(FALSE))
                   ELSE [Await(tasks[t], "signout.signOut", <<>>)
                           EXCEPT !.did = @ \cup {"signOut"}])

\* signout, `await provider.signOut()` inside the try.  It succeeds: the
\* tenant and the subscription id are cleared, the telemetry event is sent
\* and the promise fulfils with true; the telemetry throws at line 293, and
\* the catch makes it false.  It rejects: the catch reads e.message at line
\* 301 and the promise fulfils with false; on a rejection without a reason
\* that read throws.  The log and the telemetry of the catch, lines 301 and
\* 302, can throw as well, and nothing catches that.
SignoutSignOut(t) ==
  /\ At(t, "signout.signOut")
  /\ \E o \in {"sent", "telemetryThrows", "rejects", "rejectsNoReason"},
        catchThrows \in BOOLEAN :
       IF o \in {"sent", "telemetryThrows"}
       THEN /\ ProviderBecomes(FALSE)
            /\ acct' = ClearOnSignout(acct)
            /\ Settles(t, IF o = "telemetryThrows" /\ catchThrows
                          THEN Throw(tasks[t], "TelemetryError")
                          ELSE Resolve(tasks[t], Bool(o = "sent")))
       ELSE /\ UNCHANGED <<prov, events, acct>>
            /\ Settles(t, IF o = "rejectsNoReason"
                          THEN Throw(tasks[t], "TypeError")
                          ELSE IF catchThrows
                          THEN Throw(tasks[t], "TelemetryError")
                          ELSE Resolve(tasks[t], Bool(FALSE)))

\* getSelectedSubscription resumes after login, listSubscriptions,
\* setSubscription or selectSubscription returned to it, once the
\* continuations queued before its own have run.
ResumeCaller(t) ==
  /\ At(t, "return")
  /\ RunsTo(t, Continue(tasks[t], acct))
  /\ tick' = IF ReturnPending(tasks') THEN [tick EXCEPT !.draining = TRUE]
             ELSE NoTick
  /\ UNCHANGED <<acct, prov, events, ncalls>>

\* The user signs in or out outside the manager (in the Azure extension, or
\* the session expires).
ProviderChanges ==
  /\ events = <<>>
  /\ ~tick.draining
  /\ ProviderBecomes(~prov.signedIn)
  /\ UNCHANGED <<acct, tasks, ncalls, tick>>
  /\ UNCHANGED <<provider, adds, registered, logins>>
  /\ UNCHANGED NotAcctVars

\* The onDidSignIn / onDidSignOut handlers run for the oldest event, one
\* per registration: each caches the status, and a sign-in handler calls
\* updateLoginStatus, which calls isUserLogin.
HandleEvent ==
  /\ events # <<>>
  /\ ~tick.draining
  /\ acct' = [acct EXCEPT !.currentStatus =
                IF Head(events) = "signIn" THEN loggedIn ELSE loggedOut]
  /\ events' = Tail(events)
  /\ StartsAdds(IF Head(events) = "signIn" THEN registered ELSE 0,
                MaxRestarts)
  /\ UNCHANGED <<prov, tasks, ncalls, tick>>
  /\ UNCHANGED <<provider, registered>>
  /\ UNCHANGED NotAcctVars

\* A step of a call, of the provider, or of addStatusChangeEvent.
AcctStep ==
  \/ \E t \in TaskIds : SetIsLogin(t)
  \/ \E t \in TaskIds : SetSubs(t)
  \/ \E t \in TaskIds : CredentialIsLogin(t)
  \/ \E t \in TaskIds : LoginDialog(t)
  \/ \E t \in TaskIds : LoginSignIn(t)
  \/ \E t \in TaskIds : LoginCheck(t)
  \/ \E t \in TaskIds : AccountIsLogin(t)
  \/ \E t \in TaskIds : AccountSubs(t)
  \/ \E t \in TaskIds : ListIsLogin(t)
  \/ \E t \in TaskIds : ListSubs(t)
  \/ \E t \in TaskIds : SelectOption(t)
  \/ \E t \in TaskIds : StatusIsLogin(t)
  \/ \E t \in TaskIds : StatusGetToken(t)
  \/ \E t \in TaskIds : JsonGetToken(t)
  \/ \E t \in TaskIds : SignoutDialog(t)
  \/ \E t \in TaskIds : SignoutSignOut(t)
  \/ \E t \in TaskIds : ResumeCaller(t)
  \/ ProviderChanges
  \/ HandleEvent
  \/ FactoryResolves
  \/ LoginStatusUpdated
  \/ StatusNotified
  \/ RegistersHandlers
  \/ AddRejects

\* The methods that keep the selection: setSubscription, clearSub,
\* selectSubscription, getSelectedSubscription and signout.
AcctNext ==
  \/ \E t \in TaskIds : CallSetSubscription(t)
  \/ \E t \in TaskIds : CallClearSub(t)
  \/ \E t \in TaskIds : CallSelectSubscription(t)
  \/ \E t \in TaskIds : CallGetSelectedSubscription(t)
  \/ \E t \in TaskIds : CallSignout(t)
  \/ AcctStep

AcctSpec == AcctInit /\ [][AcctNext]_vars

\* Every public method of the manager.
ApiNext ==
  \/ AcctNext
  \/ \E t \in TaskIds : CallGetIdentityCredentialAsync(t)
  \/ \E t \in TaskIds : CallListSubscriptions(t)
  \/ \E t \in TaskIds : CallGetJsonObject(t)
  \/ \E t \in TaskIds : CallGetAccountInfo(t)
  \/ \E t \in TaskIds : CallGetStatus(t)
  \/ CallAddStatusChangeEvent

ApiSpec == AcctInit /\ [][ApiNext]_vars

\* =====================================================================
\* Properties of runWithLimitedConcurrency
\* =====================================================================
\* The callbacks that have been started and have not settled.
InFlight == {i \in Items : cbState[i] = "pending"}

Rejected == {i \in Items : cbState[i] = "rejected"}

\* C1: for a concurrency limit L >= 1, the number of callbacks that have been
\* started and have not yet settled never exceeds L, also when there are more
\* items than L.
C1_InFlightAtMostLimit ==
  concurrencyLimit >= 1 => Cardinality(InFlight) <= concurrencyLimit

\* More items than the limit, an item beyond the first L has been admitted,
\* and L callbacks are running.
C1_Witness ==
  /\ concurrencyLimit >= 1
  /\ nItems > concurrencyLimit
  /\ next > concurrencyLimit + 1
  /\ Cardinality(InFlight) = concurrencyLimit

\* C2: once a callback has rejected, runWithLimitedConcurrency never resolves,
\* and (every ready job running, every started callback settling) it rejects.
C2_FailurePropagates ==
  /\ [](Rejected # {} => pc # "resolved")
  /\ [](Rejected # {} => <>(pc = "rejected"))

\* The batch has rejected although other callbacks fulfilled, before and after
\* the failure.
C2_Witness ==
  /\ pc = "rejected"
  /\ failOrder # <<>>
  /\ \E i, j \in Items :
       /\ i < failOrder[1] /\ cbState[i] = "fulfilled"
       /\ j > failOrder[1] /\ cbState[j] = "fulfilled"

\* C3 as stated: the batch rejects with the error of the callback that failed
\* first.
C3_FirstFailureSurfaces ==
  pc = "rejected" => failOrder # <<>> /\ result = ErrorOf(failOrder[1])

\* C3, amended: the batch rejects with exactly the error object of a callback
\* that failed: the one that failed first, or one dispatched before it that
\* had also failed when the limiter suspended again.
C3_FailureSurfacesVerbatim ==
  pc = "rejected" =>
    /\ failOrder # <<>>
    /\ \E s \in Rejected : s <= failOrder[1] /\ result = ErrorOf(s)
    /\ Len(failOrder) = 1 => result = ErrorOf(failOrder[1])

\* Several callbacks failed and the batch rejected with the error of one that
\* was not the first to fail.
C3_Witness ==
  /\ pc = "rejected"
  /\ Len(failOrder) >= 2
  /\ result # ErrorOf(failOrder[1])
  /\ result = ErrorOf(failOrder[2])

\* The scenario of C4: five items, limit 2, only item 3 fails.
FiveItemsThirdFails == nItems = 5 /\ concurrencyLimit = 2 /\ willFail = {3}

\* C4: when every started callback settles, runWithLimitedConcurrency settles;
\* with five items, limit 2 and only item 3 failing it rejects with the error
\* of item 3.
C4_EventuallySettles ==
  /\ <>(pc \in {"resolved", "rejected"})
  /\ FiveItemsThirdFails => <>(pc = "rejected" /\ result = ErrorOf(3))

C4_Witness ==
  /\ FiveItemsThirdFails
  /\ pc = "rejected"
  /\ result = ErrorOf(3)
  /\ cbState[4] # "idle"

\* C5: runWithLimitedConcurrency resolves only when the callback has been
\* called exactly once for every item, every call has fulfilled, and nothing
\* is left in the queue; no callback is ever called twice.
C5_ResolvesOnlyWhenAllDone ==
  /\ \A i \in Items : invoked[i] <= 1
  /\ pc = "resolved" =>
       /\ \A i \in Items : invoked[i] = 1 /\ cbState[i] = "fulfilled"
       /\ queue = <<>>
       /\ next = nItems + 1

\* Resolved after more items than the limit, so after at least one wait.
C5_Witness ==
  /\ pc = "resolved"
  /\ concurrencyLimit >= 1
  /\ nItems > concurrencyLimit + 1

\* =====================================================================
\* Properties of sendRequestWithRetry
\* =====================================================================
RetryDone == rpc \in {"returned", "thrown"}

Last(h) == h[Len(h)]

\* The attempt failed with status 503: a response with that status, or an
\* error whose response has it.
Is503Failure(o) == o.kind \in {"response", "error"} /\ o.status = 503

IsSuccess(o) == o.kind = "response" /\ o.status \in {200, 201}

\* The attempts made so far follow the fault pattern of C6 for tryLimits = N:
\* 503 on attempts 1..N-1, success on attempt N.
FollowsFaultPattern ==
  \A k \in 1..Len(hist) :
    /\ k <= tryLimits
    /\ k < tryLimits => Is503Failure(hist[k])
    /\ k = tryLimits => IsSuccess(hist[k])

\* C6: for a retry limit N >= 1, when attempts 1..N-1 fail with 503 and
\* attempt N succeeds, the call ends by returning the response of attempt N,
\* after exactly N attempts.
C6_RetriesUntilSuccess ==
  (RetryDone /\ tryLimits >= 1 /\ FollowsFaultPattern) =>
    /\ rpc = "returned"
    /\ Len(hist) = tryLimits
    /\ ret = hist[tryLimits]

\* Three attempts: a 503 response, a 503 error, then success.
C6_Witness ==
  /\ rpc = "returned"
  /\ tryLimits = 3
  /\ Len(hist) = 3
  /\ hist[1].kind = "response" /\ hist[1].status = 503
  /\ hist[2].kind = "error" /\ hist[2].status = 503
  /\ ret = hist[3]

\* The attempt ended with a status (of the response returned or of the
\* error's response) that is outside [500,600) and is not a success.
EndsWithOtherStatus(o) ==
  /\ o.kind \in {"response", "error"}
  /\ o.status # NoStatus
  /\ ~(o.status >= 500 /\ o.status < 600)
  /\ ~IsSuccess(o)

\* C7: an attempt that ends with a status outside [500,600) that is not a
\* success is the last attempt and the call fails; when every attempt
\* returns 404 the call fails after exactly one attempt.  The status 0, which
\* canTry takes for a missing status, is left out of the statement here.
C7_NonZeroOtherStatusStops ==
  /\ \A k \in 1..Len(hist) :
       (EndsWithOtherStatus(hist[k]) /\ hist[k].status # 0)
         => k = Len(hist) /\ rpc # "returned"
  /\ (RetryDone /\ tryLimits >= 1 /\ \A k \in 1..Len(hist) : hist[k].status = 404)
       => Len(hist) = 1 /\ rpc = "thrown"

\* C8: requestFn is called at most tryLimits times, and never again after an
\* attempt that succeeded.
C8_AtMostTryLimitsCalls ==
  /\ Len(hist) + (IF rpc = "inflight" THEN 1 ELSE 0)
       <= (IF tryLimits > 0 THEN tryLimits ELSE 0)
  /\ \A k \in 1..Len(hist) : IsSuccess(hist[k]) => k = Len(hist) /\ rpc = "returned"

\* The budget was used up, or a success stopped the loop before that.
C8_Witness ==
  \/ rpc = "thrown" /\ tryLimits = 3 /\ Len(hist) = 3
  \/ rpc = "returned" /\ tryLimits = 3 /\ Len(hist) = 2

\* The attempt failed retryably as C9 has it: no response at all, or a status
\* in [500,600).
FailsRetryably(o) ==
  /\ ~IsSuccess(o)
  /\ \/ o.status = NoStatus
     \/ o.status >= 500 /\ o.status < 600

\* C9: when every attempt fails retryably, exactly tryLimits attempts are made
\* and the error raised is the one recorded for the last attempt.
C9_ExhaustionRaisesLastError ==
  (RetryDone /\ tryLimits >= 1 /\ \A k \in 1..Len(hist) : FailsRetryably(hist[k]))
    => /\ Len(hist) = tryLimits
       /\ rpc = "thrown"
       /\ ret = ErrorAfter(Last(hist))

\* C10: with tryLimits <= 0 requestFn is never called and the error raised is
\* the bad-tryLimits error; with tryLimits >= 1 that error is never raised.
C10_BadTryLimitsOnlyWhenInvalid ==
  /\ tryLimits <= 0 =>
       /\ hist = <<>>
       /\ RetryDone => rpc = "thrown" /\ ret = BadTryLimits(tryLimits)
  /\ tryLimits >= 1 => ret # BadTryLimits(tryLimits)

\* C11: a response is returned to the caller if and only if its status is
\* exactly 200 or 201: such a response ends the call by being returned, and a
\* response with any other status (204 included) is never returned but turned
\* into a failure: the HTTP-request-failed error made from it, or the
\* TypeError of JSON.stringify when the response cannot be serialised.
C11_OnlyOkAndCreatedSucceed ==
  /\ rpc = "returned" =>
       /\ ret = Last(hist)
       /\ ret.kind = "response" /\ ret.status \in {200, 201}
  /\ \A k \in 1..Len(hist) :
       hist[k].kind = "response" =>
         IF hist[k].status \in {200, 201}
           THEN k = Len(hist) /\ rpc = "returned" /\ ret = hist[k]
           ELSE /\ ret # hist[k]
                /\ (k = Len(hist) =>
                      error \in {HttpFailed(hist[k]), StringifyError(hist[k])})

\* A 204 response ended the call with the HTTP-request-failed error.
C11_Witness ==
  /\ rpc = "thrown"
  /\ hist # <<>>
  /\ Last(hist).kind = "response" /\ Last(hist).status = 204
  /\ ret = HttpFailed(Last(hist))


\* =====================================================================
\* Properties of sendRequestWithTimeout

TimeoutDone == tpc \in {"returned", "thrown"}

\* C12: if the timer fires before the operation resolves, cancellation is
\* signalled to the operation, and the call ends with the "Request timeout"
\* error: it never ends with the operation's own result or error once the
\* deadline has fired first.
C12_TimeoutWinsAfterDeadline ==
  /\ firedAt = "inflight" => SourceToken \in cancelledTokens
  /\ (TimeoutDone /\ firedAt = "inflight") =>
       /\ tpc = "thrown"
       /\ tret = RequestTimeout

\* C13: when the deadline fires while the operation is still running, the
\* returned promise is settled as the timeout error at the deadline, whether
\* or not the operation has settled.
C13_SettlesAtDeadline ==
  firedAt = "inflight" => (tpc = "thrown" /\ tret = RequestTimeout)

\* C14: when the operation completes, with success or with failure, before the
\* timer fires, then once the call has settled its timer is not left armed and
\* its cancel callback does not run afterwards.
C14_NoTimerLeftArmed ==
  TimeoutDone => (timer # "armed" /\ firedAt # "settled")

\* C15: one call starts exactly one timer and hands the same cancellation
\* token to every attempt, so an attempt started after the deadline has a
\* token that is cancelled already: no attempt gets a deadline of its own.
C15_OneDeadlineForAllAttempts ==
  /\ tpc # "idle" => timersStarted = 1
  /\ \A k \in 1..Len(tokens) :
       /\ tokens[k].token = SourceToken
       /\ tokens[k].late => ~tokens[k].live

\* The deadline passed during the first attempt and a second one was started.
C15_Witness ==
  /\ Len(tokens) >= 2
  /\ ~tokens[1].late
  /\ tokens[2].late /\ ~tokens[2].live
  /\ timersStarted = 1


\* =====================================================================
\* Properties of fileTreeAdd

RECURSIVE LeafCount(_), LeafCountAll(_)
LeafCount(node) ==
  IF HasChildren(node) THEN LeafCountAll(node.children) ELSE 1
LeafCountAll(nodes) ==
  IF nodes = <<>> THEN 0
  ELSE LeafCount(Head(nodes)) + LeafCountAll(Tail(nodes))

\* The directory node reached from node along dirs, through directory
\* children only; Undefined when a segment has no directory node.
RECURSIVE DirAt(_, _)
DirAt(node, dirs) ==
  IF dirs = <<>> THEN node
  ELSE IF \E i \in 1..Len(node.children) :
            HasChildren(node.children[i]) /\ node.children[i].name = Head(dirs)
    THEN DirAt(node.children[CHOOSE i \in 1..Len(node.children) :
                 HasChildren(node.children[i]) /\ node.children[i].name = Head(dirs)],
               Tail(dirs))
    ELSE Undefined

DirsOf(relativePath) == SubSeq(relativePath, 1, Len(relativePath) - 1)

RECURSIVE NoTwinDirs(_)
NoTwinDirs(node) ==
  ~HasChildren(node) \/
    /\ \A i, j \in 1..Len(node.children) :
         (i # j /\ HasChildren(node.children[i]) /\ HasChildren(node.children[j]))
           => node.children[i].name # node.children[j].name
    /\ \A i \in 1..Len(node.children) : NoTwinDirs(node.children[i])

\* C18: after any sequence of insertions every intermediate directory of every
\* inserted path has a directory node in the tree, and no node has two
\* directory children with the same name.
C18_DirectoriesCreatedOnce ==
  /\ \A k \in 1..Len(inserted) : DirAt(root, DirsOf(inserted[k])) # Undefined
  /\ NoTwinDirs(root)

\* C19: after k insertions the tree holds exactly k leaves, and every inserted
\* path has its leaf, named after the file, under the directory node of the
\* path.
C19_OneLeafPerInsertion ==
  /\ LeafCount(root) = Len(inserted)
  /\ \A k \in 1..Len(inserted) :
       LET d == DirAt(root, DirsOf(inserted[k])) IN
         /\ d # Undefined
         /\ \E i \in 1..Len(d.children) :
              d.children[i] = NewLeaf(Basename(inserted[k]))


\* =====================================================================
\* Properties of buildFileTree

\* The paths of the leaves below a list of nodes, each as the names from the
\* list down to the leaf.
RECURSIVE LeafPathsIn(_)
LeafPathsIn(nodes) ==
  UNION { IF HasChildren(nodes[i])
            THEN {<<nodes[i].name>> \o q : q \in LeafPathsIn(nodes[i].children)}
            ELSE {<<nodes[i].name>>}
          : i \in 1..Len(nodes) }

HasLeaf(i) == RelativePathOf(samplePaths[i]) \in LeafPathsIn(root.children)

ExamplePaths == SubSeq(BuildPaths, 1, 3)

ExampleTree ==
  << [name |-> "a", children |-> <<[name |-> "b.txt"], [name |-> "c.txt"]>>],
     [name |-> "d.txt"] >>

ExampleTreeReversed ==
  << [name |-> "d.txt"],
     [name |-> "a", children |-> <<[name |-> "c.txt"], [name |-> "b.txt"]>>] >>

ReverseCompletion == inserted = << <<"d.txt">>, <<"a", "c.txt">>, <<"a", "b.txt">> >>

\* C16 as stated: for the paths a/b.txt, a/c.txt, d.txt the returned tree is
\* a with children [b.txt, c.txt], then d.txt, in whatever order the fetches
\* complete.
C16_SameTreeForEveryOrder ==
  (pc = "resolved" /\ samplePaths = ExamplePaths) => root.children = ExampleTree

\* C16, amended: in whatever order the fetches complete, the returned tree has
\* one leaf for each path, at that path, and no directory twice; the order of
\* the children is the order in which the fetches completed, so that for the
\* example completing in reverse order the tree is d.txt, then a with children
\* [c.txt, b.txt].
C16_SameNodesForEveryOrder ==
  pc = "resolved" =>
    /\ LeafPathsIn(root.children) =
         {RelativePathOf(samplePaths[i]) : i \in 1..Len(samplePaths)}
    /\ LeafCount(root) = Len(samplePaths)
    /\ NoTwinDirs(root)
    /\ (samplePaths = ExamplePaths /\ ReverseCompletion)
         => root.children = ExampleTreeReversed

\* The three paths of the example were fetched in reverse order and the call
\* has returned.
C16_Witness ==
  /\ pc = "resolved"
  /\ samplePaths = ExamplePaths
  /\ ReverseCompletion

\* C17 as stated: in every reachable state the tree has a leaf for a path if
\* and only if the path was fetched and written.
C17_LeafIffMaterialized ==
  \A i \in 1..Len(samplePaths) : HasLeaf(i) <=> stage[i] = "done"

\* The file of path i was fetched: the callback is ensuring or writing it, has
\* written it, or has failed to ensure or write it.
Fetched(i) ==
  \/ stage[i] \in {"ensuring", "writing", "done"}
  \/ stage[i] = "failed" /\ failAt[i] \in {"ensure", "write"}

\* C17, amended: in every reachable state the tree has a leaf for a path if
\* and only if the fetch of the path has succeeded, whether or not the file is
\* written yet; when buildFileTree returns, every path is written and has its
\* leaf.
C17_LeafIffFetched ==
  LET leaves == LeafPathsIn(root.children) IN
    \A i \in 1..Len(samplePaths) :
      /\ RelativePathOf(samplePaths[i]) \in leaves <=> Fetched(i)
      /\ pc = "resolved" =>
           stage[i] = "done" /\ RelativePathOf(samplePaths[i]) \in leaves

\* One path is in the tree while its file is being written, another after its
\* write has failed.
C17_Witness ==
  \E i, j \in 1..Len(samplePaths) :
    /\ stage[i] = "writing" /\ HasLeaf(i)
    /\ stage[j] = "failed" /\ failAt[j] = "write" /\ HasLeaf(j)


\* =====================================================================
\* Properties of getSampleFileInfo

\* The entry is under the directory: its path is the directory, a slash, and
\* whatever follows.
UnderDir(entry) ==
  /\ Len(entry.path) >= Len(dir) + 1
  /\ \A c \in 1..Len(dir) : entry.path[c] = dir[c]
  /\ entry.path[Len(dir) + 1] = "/"

\* The places of the listing whose entries are to be returned.
Wanted ==
  {k \in 1..Len(listing.tree) : UnderDir(listing.tree[k]) /\ listing.tree[k].type # "tree"}

\* The call returned and the answer held a listing.
ReturnedListing ==
  /\ lpc = "done"
  /\ Has(listing, "tree")

\* C20: the paths returned are exactly those of the entries under "<dir>/"
\* whose type is not "tree", in listing order: as many as there are such
\* entries, the n-th of them in the n-th place.
C20_ExactlyFilesUnderDir ==
  ReturnedListing =>
    /\ Len(listed.samplePaths) = Cardinality(Wanted)
    /\ \A k \in Wanted :
         listed.samplePaths[Cardinality({j \in Wanted : j <= k})] = listing.tree[k].path

\* A listing with a file under the directory, a directory entry under it and a
\* file of the sibling directory sx, got at the second request: only the
\* first is returned.
C20_Witness ==
  /\ lpc = "done"
  /\ dir = <<"s">>
  /\ Len(hist) = 2
  /\ Has(listing, "tree")
  /\ listing.tree = << [path |-> <<"s", "x", "/", "a">>, type |-> "blob"],
                       [path |-> <<"s", "/", "b", "/", "c">>, type |-> "tree"],
                       [path |-> <<"s", "/", "a">>, type |-> "blob"] >>
  /\ listed.samplePaths = << <<"s", "/", "a">> >>


\* =====================================================================
\* Further properties of runWithLimitedConcurrency

Started(i) == cbState[i] # "idle"

\* C21: the callbacks are started in input order: whenever the callback of an
\* item has been started, so has the callback of every item before it in the
\* list, and each was started once; the order of completion is free.
C21_StartedInInputOrder ==
  /\ \A i, j \in 1..nItems : (i < j /\ Started(j)) => Started(i)
  /\ \A i \in 1..nItems : invoked[i] = (IF Started(i) THEN 1 ELSE 0)

\* The second item has completed while the first, started before it, has not.
C21_Witness ==
  /\ nItems >= 3
  /\ cbState[1] = "pending"
  /\ cbState[2] = "fulfilled"
  /\ Started(3)


RejectedInQueue == \E k \in 1..Len(queue) : cbState[queue[k]] = "rejected"

\* C22 as stated: the function never passes a suspension point successfully,
\* and so is never dispatching or resolved, while a rejected operation is in
\* the queue.
C22_NeverPassesWithRejected ==
  pc \in {"loop", "resolved"} => ~RejectedInQueue

\* C22, amended: a wait that is still undecided is decided by the first
\* rejection, and the final join never succeeds after a rejection; a
\* wait-for-one that a fulfilment has decided already is passed successfully
\* even when a callback rejects before the function resumes, and then the
\* next suspension point, whether wait-for-one or join, rejects at once.
C22_RejectsAtNextSuspension ==
  /\ [](/\ (pc \in {"race", "all"} /\ waitState = "pending") => Rejected = {}
        /\ (pc = "all" /\ Rejected # {}) => waitState = "rejected"
        /\ pc = "resolved" => Rejected = {}
        /\ Rejected # {} => RejectedInQueue)
  /\ [][(pc = "loop" /\ Rejected # {} /\ pc' \in {"race", "all"})
          => waitState' = "rejected"]_vars
  /\ [][(pc \in {"race", "all"} /\ waitState = "rejected" /\ pc' # pc)
          => pc' = "rejected"]_vars

\* The function has passed a wait-for-one and dispatches again, with a
\* rejected operation in the queue and items left to start.
C22_Witness ==
  /\ pc = "loop"
  /\ RejectedInQueue
  /\ next <= nItems


QueueSet == {queue[k] : k \in 1..Len(queue)}

\* C23 as stated: in every reachable state the queue holds exactly the
\* dispatched operations that have not settled yet.
C23_QueueIsUnsettled ==
  QueueSet = InFlight

\* C23, amended: an operation takes itself, and only itself, out of the queue
\* when it fulfils, and a rejected operation stays in the queue: in every
\* reachable state the queue holds, once each and in dispatch order, exactly
\* the dispatched operations that have not fulfilled.
C23_QueueIsUnfulfilled ==
  /\ QueueSet = InFlight \cup Rejected
  /\ \A k, l \in 1..Len(queue) : k < l => queue[k] < queue[l]

\* An operation has fulfilled and left the queue, a rejected one is still in
\* it, before a pending one.
C23_Witness ==
  /\ \E i \in 1..nItems : cbState[i] = "fulfilled" /\ i \notin QueueSet
  /\ Len(queue) >= 2
  /\ cbState[queue[1]] = "rejected"
  /\ cbState[queue[2]] = "pending"


\* =====================================================================
\* Properties of downloadSampleFiles

\* C24: a failed batch undoes and cancels nothing: no step takes a file
\* operation back, so what was written stays written, and after the batch has
\* rejected every sibling callback still in flight can take its next step, its
\* write included.
C24_NothingUndoneNothingCancelled ==
  /\ [][/\ Len(writeLog') >= Len(writeLog)
        /\ SubSeq(writeLog', 1, Len(writeLog)) = writeLog]_vars
  /\ [](pc = "rejected" =>
          \A i \in 1..nItems :
            /\ (stage[i] = "fetching" /\ failAt[i] # "fetch")
                 => ENABLED DownloadFetched(i)
            /\ (stage[i] = "ensuring" /\ failAt[i] # "ensure")
                 => ENABLED DownloadEnsured(i)
            /\ (stage[i] = "writing" /\ failAt[i] # "write")
                 => ENABLED DownloadWritten(i))

\* The batch has rejected; one file is written, and a sibling that will not
\* fail is still writing.
C24_Witness ==
  /\ pc = "rejected"
  /\ \E i, j \in 1..nItems :
       /\ stage[i] = "done"
       /\ WriteFile(DownloadFilePath(samplePaths[i])) \in
            {writeLog[k] : k \in 1..Len(writeLog)}
       /\ stage[j] = "writing" /\ failAt[j] = "none"


\* The places of the log where the file of path i is ensured, and written.
EnsuredAt(i) ==
  LET ensured == EnsureFile(DownloadFilePath(samplePaths[i]))
  IN {k \in 1..Len(writeLog) : writeLog[k] = ensured}

WrittenAt(i) ==
  LET written == WriteFile(DownloadFilePath(samplePaths[i]))
  IN {k \in 1..Len(writeLog) : writeLog[k] = written}

\* C25: for each path the steps come in the order fetch, ensure, write: a file
\* is ensured only after its fetch has succeeded and written only after it was
\* ensured, each at most once; and when downloadSampleFiles resolves, every
\* path has been ensured and written exactly once and nothing else was.
C25_FetchEnsureWrite ==
  /\ \A i \in 1..nItems :
       LET es == EnsuredAt(i)
           ws == WrittenAt(i)
       IN /\ Cardinality(es) <= 1
          /\ Cardinality(ws) <= 1
          /\ es # {} =>
               (failAt[i] # "fetch" /\ stage[i] \notin {"idle", "fetching"})
          /\ \A w \in ws : \E e \in es : e < w
          /\ ws # {} <=> stage[i] = "done"
          /\ pc = "resolved" => (Cardinality(es) = 1 /\ Cardinality(ws) = 1)
  /\ pc = "resolved" => Len(writeLog) = 2 * nItems

\* Three paths were downloaded, two at a time, and the call has resolved.
C25_Witness ==
  /\ pc = "resolved"
  /\ nItems = 3
  /\ concurrencyLimit = 2
  /\ Len(writeLog) = 6


\* =====================================================================
\* Destinations of downloadSampleFiles and buildFileTree

\* The paths of the files that buildFileTree has written.
FilesWritten == {f.path : f \in {g \in disk : g.content # EmptyFile}}

\* The path below the selected remote folder (the remote path without the
\* folder in front), under the local directory.
ReRooted(samplePath) == dstPath \o SubSeq(samplePath, 2, Len(samplePath))

\* C26 as stated: buildFileTree writes a path where downloadSampleFiles does,
\* at the path relative to the remote folder under the destination
\* directory, and the leaves of the tree are the files written there.
C26_SameDestination ==
  /\ \A i \in 1..Len(samplePaths) :
       /\ DownloadFilePath(samplePaths[i]) = ReRooted(samplePaths[i])
       /\ BuildFilePath(samplePaths[i]) = DownloadFilePath(samplePaths[i])
  /\ FilesWritten \subseteq {ReRooted(samplePaths[i]) : i \in 1..Len(samplePaths)}
  /\ pc = "resolved" =>
       FilesWritten = {dstPath \o q : q \in LeafPathsIn(root.children)}

\* C26, amended: downloadSampleFiles writes a path at its path relative to the
\* remote folder under the destination directory; buildFileTree writes it at
\* the whole remote path, folder included, under the destination directory,
\* which is another place; the tree holds the relative paths, so that its
\* leaves are the files written under <dstPath>/<folder>.  The destinations
\* depend on the arguments only, which no step changes: they are compared as
\* the call starts; what is on disk is compared in every state.
C26_BuildKeepsFolder ==
  LET written == FilesWritten IN
    /\ (pc = "loop" /\ next = 1) =>
         \A i \in 1..Len(samplePaths) :
           LET download == DownloadFilePath(samplePaths[i])
               build == BuildFilePath(samplePaths[i])
           IN /\ download = ReRooted(samplePaths[i])
              /\ build = dstPath \o samplePaths[i]
              /\ build # download
    /\ written \subseteq {dstPath \o samplePaths[i] : i \in 1..Len(samplePaths)}
    /\ pc = "resolved" =>
         written =
           {dstPath \o <<relativeFolderName>> \o q : q \in LeafPathsIn(root.children)}

\* buildFileTree has returned the tree of three files written.
C26_Witness ==
  /\ pc = "resolved"
  /\ Cardinality(FilesWritten) = 3
  /\ root # Undefined
  /\ <<"dst", "sample", "a", "b.txt">> \in FilesWritten
  /\ <<"a", "b.txt">> \in LeafPathsIn(root.children)


\* =====================================================================
\* Two calls side by side

CallStarted(r) == runs[r].pc # "idle"

QueueOfCall(r) == arrays[runs[r].queueAt]

TreeOfCall(r) == trees[runs[r].rootAt]

ItemsAt(r, stages) == {i \in 1..Len(runs[r].paths) : runs[r].stage[i] \in stages}

FetchedOfCall(r) ==
  ItemsAt(r, {"ensuring", "writing", "done"})
    \cup {i \in ItemsAt(r, {"failed"}) : runs[r].failAt[i] \in {"ensure", "write"}}

\* C27: two calls running interleaved have queues and roots of their own;
\* the queue of a call holds promises of that call only, its callbacks in
\* flight stay within its own limit, its tree holds its own fetched paths
\* only, and a step that is not of a call changes neither its queue nor its
\* tree.
C27_CallsShareNothing ==
  /\ [](\A r \in Calls : CallStarted(r) =>
          /\ \A s \in Calls \ {r} : CallStarted(s) =>
               /\ runs[r].queueAt # runs[s].queueAt
               /\ runs[r].rootAt # runs[s].rootAt
          /\ {QueueOfCall(r)[k] : k \in 1..Len(QueueOfCall(r))} =
               {<<r, i>> : i \in ItemsAt(r, {"fetching", "ensuring", "writing", "failed"})}
          /\ Cardinality(ItemsAt(r, {"fetching", "ensuring", "writing"}))
               <= runs[r].limit
          /\ LeafCount(TreeOfCall(r)) = Cardinality(FetchedOfCall(r)))
  /\ [][\A s \in Calls : (CallStarted(s) /\ runs'[s] = runs[s]) =>
          /\ arrays'[runs[s].queueAt] = arrays[runs[s].queueAt]
          /\ trees'[runs[s].rootAt] = trees[runs[s].rootAt]]_vars

\* Both calls are under way: each has a callback in flight in its queue, the
\* first has a path in its tree that the second has not got yet.
C27_Witness ==
  /\ \A r \in Calls :
       CallStarted(r) /\ ItemsAt(r, {"fetching", "ensuring", "writing"}) # {}
  /\ runs[1].limit # runs[2].limit
  /\ ItemsAt(1, {"done"}) # {}
  /\ LeafCount(TreeOfCall(1)) = 2
  /\ LeafCount(TreeOfCall(2)) = 0


\* =====================================================================
\* Retries after the deadline

\* C28: once the timer has fired and the token is cancelled, the retry loop
\* starts no new attempt: no call of requestFn begins after the deadline.
C28_NoAttemptAfterDeadline ==
  \A k \in 1..Len(tokens) : ~tokens[k].late


\* =====================================================================
\* Limits of one and less

\* C29: with a limit of 1, 0 or less the items run strictly one at a time, a
\* callback being started only when the one before it has fulfilled, and the
\* function does not hang: it resolves or rejects in the end.
C29_OneAtATimeBelowTwo ==
  /\ [](concurrencyLimit <= 1 =>
          /\ Cardinality(InFlight) <= 1
          /\ \A i \in 2..nItems : Started(i) => cbState[i - 1] = "fulfilled")
  /\ (concurrencyLimit <= 1) => <>(pc \in {"resolved", "rejected"})

\* Three items have run to the end under a limit of zero or less.
C29_Witness ==
  /\ concurrencyLimit <= 0
  /\ nItems >= 3
  /\ pc = "resolved"
  /\ \A i \in 1..nItems : cbState[i] = "fulfilled" /\ invoked[i] = 1

\* =====================================================================
\* C30.  In every reachable state of AzureAccountManager, whatever calls of
\* setSubscription, clearSub, selectSubscription, getSelectedSubscription
\* and signout were made, in any number and wherever they stand, the stored
\* tenantId and subscriptionId are both set or both unset.
\* =====================================================================
C30_TenantAndSubscriptionTogether ==
  (acct.tenantId = Unset) <=> (acct.subscriptionId = Unset)

\* A subscription was stored and a sign-out then cleared the pair: the
\* name of the subscription is still there, the tenant and the id are not,
\* and the sign-out fulfilled with true.
C30_Witness ==
  /\ acct.subscriptionName # Unset
  /\ acct.tenantId = Unset
  /\ acct.subscriptionId = Unset
  /\ \E t \in TaskIds :
       tasks[t].op = "signout" /\ tasks[t].out = Bool(TRUE)

\* =====================================================================
\* Outcomes of setSubscription

\* The stored selection: tenant, subscription id and subscription name.
Selection(a) == <<a.tenantId, a.subscriptionId, a.subscriptionName>>

\* Call t takes a step.
Steps(t) == tasks'[t] # tasks[t]

\* The provider answers call t, which awaits getSubscriptions, with a list
\* in this step.
Answered(t) == tasks'[t].out # Error("ProviderError")

\* Some subscription of the list that the provider answers call t with in
\* this step has the id the call looks for.
Matches(t) ==
  \E i \in 1..Len(tasks'[t].subs) :
    tasks'[t].subs[i].subscriptionId = tasks[t].sid

\* Call t is made in this step: setSubscription with the id or ids given.
SetSubscriptionCalled(t, ids) ==
  /\ tasks[t].pc \in {"idle", "end"}
  /\ Steps(t)
  /\ tasks'[t].op = "setSubscription"
  /\ tasks'[t].sid \in ids

\* C31 as stated: setSubscription with a non-empty id rejects with
\* UnknownSubscription when the user is not signed in or when no
\* subscription of the list the provider answers with has the id, and the
\* step that rejects leaves tenantId, subscriptionId and subscriptionName
\* as they were; no step of the call before that changes them either.
\* setSubscription("") clears all three and resolves.
C31_SetSubscriptionOutcomes ==
  [][\A t \in TaskIds :
       /\ (tasks[t].pc = "set.isLogin" /\ Steps(t)) =>
            /\ Selection(acct') = Selection(acct)
            /\ (tasks[t].noProvider \/ ~prov.signedIn) =>
                 tasks'[t].out = Error("UnknownSubscription")
       /\ (tasks[t].pc = "set.subs" /\ Steps(t) /\ Answered(t)
              /\ ~Matches(t)) =>
            /\ Selection(acct') = Selection(acct)
            /\ tasks'[t].out = Error("UnknownSubscription")
       /\ SetSubscriptionCalled(t, {""}) =>
            /\ Selection(acct') = <<Unset, Unset, Unset>>
            /\ tasks'[t].out = Void
       /\ SetSubscriptionCalled(t, SubscriptionIds \ {""}) =>
            /\ Selection(acct') = Selection(acct)
            /\ tasks'[t].out = Pending]_vars

\* C31, amended: setSubscription with a non-empty id rejects when the user
\* is not signed in or when no subscription of the list the provider
\* answers with has the id, and no step of the call up to the rejection
\* changes tenantId, subscriptionId or subscriptionName.  It rejects with
\* UnknownSubscription when no provider is there yet, when the provider
\* says the user is not signed in and when the provider's list has no such
\* id, and only then; it rejects with the provider's own error when
\* isSignedIn or getSubscriptions rejects, and with a TypeError when the
\* provider is undefined by the time getSubscriptions is called.
\* setSubscription("") clears all three and resolves.
C31_SetSubscriptionRejections ==
  [][\A t \in TaskIds :
       /\ (tasks[t].pc = "set.isLogin" /\ Steps(t)) =>
            /\ Selection(acct') = Selection(acct)
            /\ tasks[t].noProvider =>
                 tasks'[t].out = Error("UnknownSubscription")
            /\ (~tasks[t].noProvider /\ ~prov.signedIn) =>
                 tasks'[t].out \in {Error("UnknownSubscription"),
                                    Error("ProviderError")}
            /\ (~tasks[t].noProvider /\ prov.signedIn) =>
                 \/ tasks'[t].out \in {Error("ProviderError"),
                                       Error("TypeError")}
                 \/ /\ tasks'[t].out = Pending
                    /\ tasks'[t].pc = "set.subs"
                    /\ provider # Unset
            /\ tasks'[t].out = Error("TypeError") => provider = Unset
       /\ (tasks[t].pc = "set.subs" /\ Steps(t)) =>
            /\ ~Answered(t) => Selection(acct') = Selection(acct)
            /\ (Answered(t) /\ ~Matches(t)) =>
                 /\ tasks'[t].out = Error("UnknownSubscription")
                 /\ Selection(acct') = Selection(acct)
            /\ tasks'[t].out = Error("UnknownSubscription") => ~Matches(t)
       /\ SetSubscriptionCalled(t, {""}) =>
            /\ Selection(acct') = <<Unset, Unset, Unset>>
            /\ tasks'[t].out = Void
       /\ SetSubscriptionCalled(t, SubscriptionIds \ {""}) =>
            /\ Selection(acct') = Selection(acct)
            /\ tasks'[t].out = Pending]_vars

\* A subscription is selected, and a later setSubscription with the id of
\* another subscription was rejected: the selection is still there.
C31_Witness ==
  /\ acct.subscriptionId = "s1"
  /\ acct.tenantId = "t1"
  /\ acct.subscriptionName = "n1"
  /\ \E t \in TaskIds :
       /\ tasks[t].op = "setSubscription"
       /\ tasks[t].sid = "s2"
       /\ tasks[t].out = Error("UnknownSubscription")

\* =====================================================================
\* getSelectedSubscription without UI

\* C32: a call of getSelectedSubscription with triggerUI = false never
\* starts an interactive login: it neither shows the sign-in confirmation
\* dialog nor calls provider.signIn.
C32_NoLoginWithoutUI ==
  \A t \in TaskIds :
    (tasks[t].op = "getSelectedSubscription" /\ ~tasks[t].triggerUI) =>
      tasks[t].did \cap {"loginDialog", "signIn"} = {}

\* =====================================================================
\* Registration of the status handlers

\* C33: the sign-in and sign-out handlers are registered at most once, so
\* the events fired so far have caused no more than one status update and
\* one status notification each.
C33_HandlersRegisteredOnce ==
  /\ registered <= 1
  /\ updates <= fired
  /\ notified <= fired

\* =====================================================================
\* Outcomes of signout

\* C34: signout fulfils with true only in the step in which the provider's
\* signOut succeeded, and that step clears tenantId and subscriptionId; when
\* the user declines the confirmation it rejects with UserCancel, the
\* provider's signOut was not called and the selection is as it was; when
\* the provider's signOut fails, the user who was signed in being signed in
\* still, it fulfils with false and the selection is as it was.
C34_SignoutOutcomes ==
  [][\A t \in TaskIds :
       /\ (tasks'[t].op = "signout" /\ Steps(t)
              /\ tasks'[t].out = Bool(TRUE)) =>
            /\ tasks[t].pc = "signout.signOut"
            /\ ~prov'.signedIn
            /\ acct'.tenantId = Unset
            /\ acct'.subscriptionId = Unset
       /\ (tasks[t].pc = "signout.dialog" /\ Steps(t)
              /\ tasks'[t].out = Error("UserCancel")) =>
            /\ "signOut" \notin tasks[t].did
            /\ prov' = prov
            /\ Selection(acct') = Selection(acct)
       /\ (tasks[t].pc = "signout.signOut" /\ Steps(t)
              /\ prov.signedIn /\ prov'.signedIn) =>
            /\ tasks'[t].out = Bool(FALSE)
            /\ Selection(acct') = Selection(acct)]_vars

====
